---- MODULE Spec2Model ----
(***************************************************************************)
(* State-machine model of the OKR tracker's domain coordination layer:     *)
(* the Progress Engine, the Access Gate, the Directory Resolver, the       *)
(* notification fan-out and the objective lifecycle operations of          *)
(* server/src/services.                                                    *)
(*                                                                         *)
(* Text values (owner labels, names, e-mail addresses) are sequences of    *)
(* one-character strings, so that trim, toLowerCase, split and substring   *)
(* search are computed and not assumed.  An optional value of the source   *)
(* (undefined) is the empty sequence <<>> and a present value v is <<v>>;  *)
(* optional enum strings use the string Undefined.                         *)
(***************************************************************************)
EXTENDS Integers, Sequences, FiniteSets, TLC

VARIABLES
    users,          \* ids of the user documents present in the directory
    okrs,           \* okr id -> okr document (the objectives collection)
    nextOkrId,      \* next _id handed out by OkrModel.create
    notifications,  \* the notifications collection, in insertion order
    calls,          \* number of service calls made so far
    last,           \* what the latest service call did (history variable)
    engineInput,    \* Progress Engine harness: the key-result list
    engineProgress, \* Progress Engine harness: calculateProgress(engineInput)
    engineStatus,   \* Progress Engine harness: deriveOkrStatus(engineInput)
    diffPrevious,   \* ownership-diff harness: previous owner labels
    diffNext,       \* ownership-diff harness: next owner labels
    diffAdded,      \* ownership-diff harness: computed additions
    diffRemoved,    \* ownership-diff harness: computed removals
    comments,       \* comment id -> comment document with its embedded replies
    nextCommentId,  \* next _id handed out to a comment or a reply
    faults,         \* whether the directory / notification store may reject a fan-out
    resolverLabels, \* Directory Resolver harness: the labels
    resolverResult, \* Directory Resolver harness: uniqueUsers(resolveUsersByLabels(..))
    mentionMessage, \* mention harness: the fragments of the message text
    mentionResult,  \* mention harness: extractMentions of the message text
    reportZone,     \* report harness: the server's offset from UTC in hours
    reportFilters,  \* report harness: the filters of the latest report request
    reportResult,   \* report harness: the quarters getQuarterlyReport returned
    inflight,       \* interleaving harness: request -> its position and loaded document
    versionOf,      \* interleaving harness: okr id -> the stored version key (__v)
    accounts,       \* user id -> the credential fields of the user document
    issuedTokens,   \* the refresh-token payloads signed so far (held by clients)
    nextTokenId,    \* the next value crypto.randomUUID() returns
    retryOptions,   \* fetchWithRetry: the options of the call, once made
    attempt,        \* fetchWithRetry: the loop counter
    lastError,      \* fetchWithRetry: the lastError local
    fetched,        \* fetchWithRetry: the outcomes of the fetch calls so far
    waiting,        \* fetchWithRetry: whether the call is in its back-off wait
    settled         \* fetchWithRetry: how the returned promise settled, once it has

vars == <<users, okrs, nextOkrId, notifications, calls, last,
          engineInput, engineProgress, engineStatus,
          diffPrevious, diffNext, diffAdded, diffRemoved,
          comments, nextCommentId, faults, resolverLabels, resolverResult,
          mentionMessage, mentionResult, reportZone, reportFilters, reportResult,
          inflight, versionOf,
          accounts, issuedTokens, nextTokenId,
          retryOptions, attempt, lastError, fetched, waiting, settled>>

serviceVars == <<users, okrs, nextOkrId, notifications, calls, last>>
engineVars == <<engineInput, engineProgress, engineStatus>>
diffVars == <<diffPrevious, diffNext, diffAdded, diffRemoved>>
commentVars == <<comments, nextCommentId>>
resolverVars == <<resolverLabels, resolverResult>>
mentionVars == <<mentionMessage, mentionResult>>
reportVars == <<reportZone, reportFilters, reportResult>>
raceVars == <<inflight, versionOf>>
authVars == <<accounts, issuedTokens, nextTokenId>>
retryVars == <<retryOptions, attempt, lastError, fetched, waiting, settled>>
\* what the objective operations of the service specification leave alone
otherVars == <<commentVars, faults, engineVars, diffVars, resolverVars, mentionVars,
               reportVars, raceVars,
                   authVars, retryVars>>

-----------------------------------------------------------------------------
(* Bounds of the exploration.                                              *)

\* service calls per behaviour
MaxCalls == 3
\* service calls per behaviour when the stores are faulty
MaxFaultCalls == 2
\* key results per list in the Progress Engine harness
MaxEngineLen == 3
\* labels per list in the ownership-diff harness
MaxDiffLen == 2
\* fragments per message in the mention harness
MaxMentionLen == 4
\* labels per list in the Directory Resolver harness
MaxResolverLen == 2

-----------------------------------------------------------------------------
(* Optional values.                                                        *)

Undefined == "undefined"
None == <<>>
Some(v) == <<v>>
IsSome(opt) == opt # <<>>
\* opt ?? fallback
Coalesce(opt, fallback) == IF opt = <<>> THEN fallback ELSE opt[1]

Range(seq) == {seq[i] : i \in 1..Len(seq)}

Min(a, b) == IF a < b THEN a ELSE b

-----------------------------------------------------------------------------
(* Text.                                                                   *)

UpperCaseLetters ==
    <<"A","B","C","D","E","F","G","H","I","J","K","L","M",
      "N","O","P","Q","R","S","T","U","V","W","X","Y","Z">>
LowerCaseLetters ==
    <<"a","b","c","d","e","f","g","h","i","j","k","l","m",
      "n","o","p","q","r","s","t","u","v","w","x","y","z">>

\* the lower-case letter of every upper-case letter
LowerCaseOf ==
    [c \in Range(UpperCaseLetters) |->
        LowerCaseLetters[CHOOSE i \in DOMAIN UpperCaseLetters : UpperCaseLetters[i] = c]]

toLowerCaseChar(c) == IF c \in DOMAIN LowerCaseOf THEN LowerCaseOf[c] ELSE c

\* String.prototype.toLowerCase
toLowerCase(s) == [i \in 1..Len(s) |-> toLowerCaseChar(s[i])]

IsWhitespace(c) == c = " "

\* String.prototype.trim
trim(s) ==
    LET inked == {i \in 1..Len(s) : ~IsWhitespace(s[i])}
    IN  IF inked = {} THEN <<>>
        ELSE LET first == CHOOSE i \in inked : \A j \in inked : i <= j
                 final == CHOOSE i \in inked : \A j \in inked : j <= i
             IN  SubSeq(s, first, final)

\* `${a} ${b}`
JoinWithSpace(a, b) == a \o <<" ">> \o b

\* RegExp(escapeRegex(needle), "i").test(hay): a case-insensitive literal
\* substring search (the empty needle matches everywhere)
ContainsIgnoreCase(hay, needle) ==
    LET h == toLowerCase(hay)
        n == toLowerCase(needle)
    IN  \E i \in 0..(Len(h) - Len(n)) : SubSeq(h, i + 1, i + Len(n)) = n

\* RegExp(`^${escapeRegex(needle)}$`, "i").test(hay)
EqualsIgnoreCase(hay, needle) == toLowerCase(hay) = toLowerCase(needle)

\* s.split(/\s+/) of a trimmed, non-empty s: the maximal runs of
\* non-whitespace characters, in order
RECURSIVE splitWhitespace(_)
splitWhitespace(s) ==
    IF s = <<>> THEN <<>>
    ELSE IF IsWhitespace(s[1]) THEN splitWhitespace(Tail(s))
    ELSE LET stops == {i \in 1..Len(s) : IsWhitespace(s[i])}
             stop == IF stops = {} THEN Len(s) + 1
                     ELSE CHOOSE i \in stops : \A j \in stops : i <= j
         IN  <<SubSeq(s, 1, stop - 1)>> \o splitWhitespace(SubSeq(s, stop, Len(s)))

\* email.split("@")[0]
emailPrefixOf(email) ==
    LET ats == {i \in 1..Len(email) : email[i] = "@"}
    IN  IF ats = {} THEN email
        ELSE SubSeq(email, 1, (CHOOSE i \in ats : \A j \in ats : i <= j) - 1)

-----------------------------------------------------------------------------
(* The labels and users the exploration draws from.                        *)

AdaFirstName == <<"A","d","a">>
AdaLastName == <<"L","o","v","e","l","a","c","e">>
AdaEmail == <<"a","d","a","@","x",".","c","o","m">>
BobFirstName == <<"B","o","b">>
BobLastName == <<"S","t","o","n","e">>
BobEmail == <<"b","o","b","@","x",".","c","o","m">>
\* createUser("Mia Van Dam"): parseName keeps every word after the first in
\* the last name
MiaFirstName == <<"M","i","a">>
MiaLastName == <<"V","a","n"," ","D","a","m">>
MiaEmail == <<"m","i","a","@","x",".","c","o","m">>

LabelAdaFull == JoinWithSpace(AdaFirstName, AdaLastName)
LabelAdaEmailShouted == <<" ","A","D","A","@","X",".","C","O","M"," ">>
LabelAdaFirst == <<"a","d","a">>
LabelBobFull == JoinWithSpace(BobFirstName, BobLastName)
LabelBobPadded == <<" ">> \o LabelBobFull \o <<" ">>
LabelEve == <<"E","v","e">>
LabelEmpty == <<>>
LabelAdaLast == AdaLastName
LabelAdaPartial == <<"a","d">>
LabelMiaFull == JoinWithSpace(MiaFirstName, MiaLastName)
LabelMiaLast == <<"v","a","n"," ","d","a","m">>
LabelMailHost == <<"x",".","c","o","m">>

\* the users of the service specification
UserIds == {"u1", "u2"}
\* every user document the exploration knows
DirectoryIds == UserIds \cup {"u3"}

\* the user documents, by _id; `users` says which of them exist
Directory ==
    [u \in DirectoryIds |->
        IF u = "u1"
        THEN [firstName |-> AdaFirstName, lastName |-> AdaLastName,
              email |-> AdaEmail, role |-> "employee"]
        ELSE IF u = "u2"
        THEN [firstName |-> BobFirstName, lastName |-> BobLastName,
              email |-> BobEmail, role |-> "employee"]
        ELSE [firstName |-> MiaFirstName, lastName |-> MiaLastName,
              email |-> MiaEmail, role |-> "employee"]]

\* UserModel.find(): the existing users in collection order
UserOrder == <<"u1", "u2", "u3">>

-----------------------------------------------------------------------------
(* Progress Engine.                                                        *)

KeyResultStatuses == {"onTrack", "atRisk", "offTrack", "completed"}
OkrStatuses == {"onTrack", "atRisk", "offTrack"}

\* Math.round(numerator / denominator) for denominator > 0: the nearest
\* integer, halves rounded towards +infinity
RoundDiv(numerator, denominator) ==
    (2 * numerator + denominator) \div (2 * denominator)

\* numerator / denominator < p / q, for denominator # 0 and q > 0
RatioBelow(numerator, denominator, p, q) ==
    IF denominator > 0
    THEN numerator * q < p * denominator
    ELSE numerator * q > p * denominator

\* const statusScores (the lookup used when target is not positive)
statusScores(status) ==
    CASE status = "completed" -> 100
      [] status = "onTrack" -> 75
      [] status = "atRisk" -> 45
      [] status = "offTrack" -> 20
      [] OTHER -> 0

\* the callback of keyResults.map in calculateProgress
progressValue(keyResult) ==
    LET target == Coalesce(keyResult.target, 0)
        current == Coalesce(keyResult.current, 0)
    IN  IF target > 0 THEN Min(100, RoundDiv(current * 100, target))
        ELSE IF keyResult.status # Undefined THEN statusScores(keyResult.status)
        ELSE 0

RECURSIVE SumSeq(_)
SumSeq(seq) == IF seq = <<>> THEN 0 ELSE seq[1] + SumSeq(Tail(seq))

calculateProgress(keyResults) ==
    IF Len(keyResults) = 0 THEN 0
    ELSE LET progressValues == [i \in 1..Len(keyResults) |-> progressValue(keyResults[i])]
         IN  RoundDiv(SumSeq(progressValues), Len(progressValues))

\* the loop of deriveOkrStatus from index i on, with the flag hasAtRisk
RECURSIVE deriveOkrStatusFrom(_, _, _)
deriveOkrStatusFrom(keyResults, i, hasAtRisk) ==
    IF i > Len(keyResults) THEN (IF hasAtRisk THEN "atRisk" ELSE "onTrack")
    ELSE LET keyResult == keyResults[i]
             status == keyResult.status
             target == Coalesce(keyResult.target, 0)
             current == Coalesce(keyResult.current, 0)
         IN  IF status = "offTrack" THEN "offTrack"
             ELSE IF status = "atRisk" THEN deriveOkrStatusFrom(keyResults, i + 1, TRUE)
             ELSE IF status = Undefined /\ target # 0
             THEN IF RatioBelow(current, target, 4, 10) THEN "offTrack"
                  ELSE IF RatioBelow(current, target, 7, 10)
                       THEN deriveOkrStatusFrom(keyResults, i + 1, TRUE)
                       ELSE deriveOkrStatusFrom(keyResults, i + 1, hasAtRisk)
             ELSE deriveOkrStatusFrom(keyResults, i + 1, hasAtRisk)

\* deriveOkrStatus without the branch that flags a ratio below 0.7
deriveOkrStatusNoRatioRisk(keyResults) ==
    IF \E i \in 1..Len(keyResults) :
           \/ keyResults[i].status = "offTrack"
           \/ /\ keyResults[i].status = Undefined
              /\ Coalesce(keyResults[i].target, 0) # 0
              /\ RatioBelow(Coalesce(keyResults[i].current, 0), keyResults[i].target[1], 4, 10)
    THEN "offTrack"
    ELSE IF \E i \in 1..Len(keyResults) : keyResults[i].status = "atRisk" THEN "atRisk"
    ELSE "onTrack"

deriveOkrStatus(keyResults) ==
    IF Len(keyResults) = 0 THEN "onTrack"
    ELSE deriveOkrStatusFrom(keyResults, 1, FALSE)

-----------------------------------------------------------------------------
(* Okr documents.                                                          *)
(*   okr document:  [objective, owners, owner, createdBy, status,          *)
(*                   progress, keyResults]                                 *)
(*   key result:    [id, current, target, status]                          *)
(*   OkrInput:      the same fields, each optional; a KeyResultInput has   *)
(*                  optional id, current, target and status                *)

\* a stored key-result list as calculateProgress and deriveOkrStatus read it
\* (both take OkrInput["keyResults"] and are also handed okr.keyResults)
asKeyResultInputs(keyResults) ==
    [i \in 1..Len(keyResults) |->
        [id |-> Some(keyResults[i].id),
         current |-> Some(keyResults[i].current),
         target |-> Some(keyResults[i].target),
         status |-> keyResults[i].status]]

\* the _id values of the key results of every stored okr
UsedKeyResultIds(collection) ==
    UNION {{collection[o].keyResults[i].id : i \in 1..Len(collection[o].keyResults)} :
           o \in DOMAIN collection}

\* the ObjectId mongoose gives the n-th sub-document built without an _id:
\* a value no stored or supplied key result has
RECURSIVE FreshId(_, _)
FreshId(taken, n) ==
    LET least == CHOOSE k \in 1..(Cardinality(taken) + 1) :
                    /\ k \notin taken
                    /\ \A j \in 1..(k - 1) : j \in taken
    IN  IF n <= 1 THEN least ELSE FreshId(taken \cup {least}, n - 1)

mapKeyResults(keyResults, collection) ==
    LET supplied == {keyResults[i].id[1] : i \in {j \in 1..Len(keyResults) : IsSome(keyResults[j].id)}}
        taken == UsedKeyResultIds(collection) \cup supplied
        nth(i) == Cardinality({j \in 1..i : ~IsSome(keyResults[j].id)})
    IN  [i \in 1..Len(keyResults) |->
            [id |-> IF IsSome(keyResults[i].id) THEN keyResults[i].id[1]
                    ELSE FreshId(taken, nth(i)),
             current |-> Coalesce(keyResults[i].current, 0),
             target |-> Coalesce(keyResults[i].target, 0),
             status |-> IF keyResults[i].status = Undefined THEN "onTrack"
                        ELSE keyResults[i].status]]

\* the setter of a schema path declared with trim: true (okr.owner)
trimmedPath(opt) == IF IsSome(opt) THEN Some(trim(opt[1])) ELSE None

\* okr.owners?.length ? okr.owners : okr.owner ? [okr.owner] : []
ownersOf(okr) ==
    IF Len(okr.owners) > 0 THEN okr.owners
    ELSE IF IsSome(okr.owner) /\ okr.owner[1] # <<>> THEN <<okr.owner[1]>>
    ELSE <<>>

\* schema validation run by save() and create(): the required objective and
\* dueDate and the enums of status
validates(okr) ==
    /\ okr.objective # <<>>
    /\ IsSome(okr.dueDate) /\ okr.dueDate[1] # <<>>
    /\ okr.status \in OkrStatuses
    /\ \A i \in 1..Len(okr.keyResults) : okr.keyResults[i].status \in KeyResultStatuses

-----------------------------------------------------------------------------
(* Access Gate.                                                            *)

\* value?.trim().toLowerCase()
normalizeOwner(value) == toLowerCase(trim(value))

\* the identifiers set of resolveOwnerAccess
identifiersOf(user) ==
    {v \in {normalizeOwner(user.email),
            normalizeOwner(trim(JoinWithSpace(user.firstName, user.lastName)))} :
        v # <<>>}

\* the ownerValues list of resolveOwnerAccess, as a set
ownerValuesOf(okr) ==
    {v \in {normalizeOwner(l) :
              l \in Range(okr.owners) \cup (IF IsSome(okr.owner) THEN {okr.owner[1]} ELSE {})} :
        v # <<>>}

\* resolveOwnerAccess with creatorMatch true of any okr that has a creator
resolveOwnerAccessAnyCreator(okr, actor) ==
    IF actor = Undefined \/ actor \notin users
    THEN [error |-> "401", ownerMatch |-> FALSE, creatorMatch |-> FALSE]
    ELSE [error |-> "none",
          ownerMatch |-> ownerValuesOf(okr) \cap identifiersOf(Directory[actor]) # {},
          creatorMatch |-> okr.createdBy # Undefined]

\* resolveOwnerAccess without the creatorMatch
resolveOwnerAccessOwnersOnly(okr, actor) ==
    IF actor = Undefined \/ actor \notin users
    THEN [error |-> "401", ownerMatch |-> FALSE, creatorMatch |-> FALSE]
    ELSE [error |-> "none",
          ownerMatch |-> ownerValuesOf(okr) \cap identifiersOf(Directory[actor]) # {},
          creatorMatch |-> FALSE]

\* resolveOwnerAccess: error is "401" when there is no actor or no such user
resolveOwnerAccess(okr, actor) ==
    IF actor = Undefined \/ actor \notin users
    THEN [error |-> "401", ownerMatch |-> FALSE, creatorMatch |-> FALSE]
    ELSE [error |-> "none",
          ownerMatch |-> ownerValuesOf(okr) \cap identifiersOf(Directory[actor]) # {},
          creatorMatch |-> okr.createdBy # Undefined /\ okr.createdBy = actor]

\* "ok", or the status code of the AppError thrown
ensureOwnerOrCreator(okr, actor) ==
    LET access == resolveOwnerAccess(okr, actor)
    IN  IF access.error # "none" THEN access.error
        ELSE IF ~access.ownerMatch /\ ~access.creatorMatch THEN "403"
        ELSE "ok"

ensureDeleteAccess(okr, actor) ==
    IF actor = Undefined THEN "401"
    ELSE LET access == resolveOwnerAccess(okr, actor)
         IN  IF access.error # "none" THEN access.error
             ELSE IF access.creatorMatch \/ access.ownerMatch THEN "ok"
             ELSE "403"

-----------------------------------------------------------------------------
(* Directory Resolver.                                                     *)

\* value.trim().toLowerCase()
normalizeLabel(value) == toLowerCase(trim(value))

userMatchesLabel(user, label) ==
    LET normalized == normalizeLabel(label)
        fullName == toLowerCase(trim(JoinWithSpace(user.firstName, user.lastName)))
        email == toLowerCase(user.email)
        emailPrefix == emailPrefixOf(email)
    IN  \/ normalized = email
        \/ normalized = emailPrefix
        \/ normalized = toLowerCase(user.firstName)
        \/ normalized = toLowerCase(user.lastName)
        \/ normalized = fullName

\* the $or conditions resolveUsersByLabels builds for one cleaned label
matchesOrConditions(user, label) ==
    LET parts == splitWhitespace(trim(label))
    IN  \/ ContainsIgnoreCase(user.email, label)
        \/ ContainsIgnoreCase(user.firstName, label)
        \/ ContainsIgnoreCase(user.lastName, label)
        \/ /\ Len(parts) >= 2
           /\ EqualsIgnoreCase(user.firstName, parts[1])
           /\ EqualsIgnoreCase(user.lastName, parts[Len(parts)])

\* the user ids resolved from the labels, in collection order
resolveUsersByLabels(labels) ==
    LET cleaned == {l \in {trim(labels[i]) : i \in 1..Len(labels)} : Len(l) > 0}
        isCandidate(u) == u \in users /\ \E l \in cleaned : matchesOrConditions(Directory[u], l)
        candidates == SelectSeq(UserOrder, isCandidate)
        matches(u) == \E l \in cleaned : userMatchesLabel(Directory[u], l)
    IN  IF cleaned = {} THEN <<>> ELSE SelectSeq(candidates, matches)

RECURSIVE uniqueUsers(_)
uniqueUsers(resolved) ==
    IF resolved = <<>> THEN <<>>
    ELSE LET rest == uniqueUsers(SubSeq(resolved, 1, Len(resolved) - 1))
             user == resolved[Len(resolved)]
         IN  IF user \in Range(rest) THEN rest ELSE Append(rest, user)

-----------------------------------------------------------------------------
(* Mention extraction.                                                     *)

Digits == {"0","1","2","3","4","5","6","7","8","9"}

\* the character class [A-Za-z0-9._-] of the mention pattern
MentionChars ==
    Range(UpperCaseLetters) \cup Range(LowerCaseLetters) \cup Digits \cup {".", "_", "-"}

IsMentionChar(c) == c \in MentionChars

\* the last index of the run of mention characters that starts at i
\* (i - 1 when s[i] is not one)
RECURSIVE wordEnd(_, _)
wordEnd(s, i) ==
    IF i <= Len(s) /\ IsMentionChar(s[i]) THEN wordEnd(s, i + 1) ELSE i - 1

\* the last index of the run of whitespace that starts at i
RECURSIVE spaceEnd(_, _)
spaceEnd(s, i) ==
    IF i <= Len(s) /\ IsWhitespace(s[i]) THEN spaceEnd(s, i + 1) ELSE i - 1

\* the last index of the greedy match of [A-Za-z0-9._-]+(?:\s+[A-Za-z0-9._-]+)*
\* that starts at i, where s[i] is a mention character
RECURSIVE mentionEnd(_, _)
mentionEnd(s, i) ==
    LET word == wordEnd(s, i)
        gap == spaceEnd(s, word + 1)
    IN  IF gap > word /\ gap < Len(s) /\ IsMentionChar(s[gap + 1])
        THEN mentionEnd(s, gap + 1)
        ELSE word

\* match[1] of every regex.exec(message) from index i on, in order
RECURSIVE mentionMatches(_, _)
mentionMatches(s, i) ==
    IF i > Len(s) THEN <<>>
    ELSE IF s[i] = "@" /\ i < Len(s) /\ IsMentionChar(s[i + 1])
    THEN LET end == mentionEnd(s, i + 1)
         IN  <<SubSeq(s, i + 1, end)>> \o mentionMatches(s, end + 1)
    ELSE mentionMatches(s, i + 1)

\* value.replace(/[.,!?]+$/, "")
RECURSIVE stripTrailingPunctuation(_)
stripTrailingPunctuation(s) ==
    IF s # <<>> /\ s[Len(s)] \in {".", ",", "!", "?"}
    THEN stripTrailingPunctuation(SubSeq(s, 1, Len(s) - 1))
    ELSE s

\* Array.from(new Set(seq)): the first occurrence of every value, in order
RECURSIVE insertionOrder(_)
insertionOrder(seq) ==
    IF seq = <<>> THEN <<>>
    ELSE LET rest == insertionOrder(SubSeq(seq, 1, Len(seq) - 1))
             value == seq[Len(seq)]
         IN  IF value \in Range(rest) THEN rest ELSE Append(rest, value)

extractMentions(message) ==
    LET matches == mentionMatches(message, 1)
        cleaned == [k \in 1..Len(matches) |-> stripTrailingPunctuation(trim(matches[k]))]
        isMention(m) == m # <<>>
    IN  insertionOrder(SelectSeq(cleaned, isMention))

-----------------------------------------------------------------------------
(* Notification fan-out.                                                   *)

TitleOwnerAdded == "You were added as an OKR owner"
TitleOwnerRemoved == "You were removed as an OKR owner"
TitleProgress == "OKR progress updated"

\* a document of the notifications collection (isRead defaults to false)
NotificationDoc(userId, type, title, message, contextLabel, contextId) ==
    [userId |-> userId, type |-> type, title |-> title, message |-> message,
     contextLabel |-> contextLabel, contextId |-> contextId, isRead |-> FALSE]

\* the documents createOwnerChangeNotifications hands to createNotifications
createOwnerChangeNotifications(okrId, okrObjective, addedOwners, removedOwners) ==
    LET addedUsers == IF Len(addedOwners) > 0
                      THEN uniqueUsers(resolveUsersByLabels(addedOwners)) ELSE <<>>
        removedUsers == IF Len(removedOwners) > 0
                        THEN uniqueUsers(resolveUsersByLabels(removedOwners)) ELSE <<>>
    IN  [i \in 1..Len(addedUsers) |->
            NotificationDoc(addedUsers[i], "owner", TitleOwnerAdded,
                            <<"You are now an owner for", okrObjective>>, "OKR", okrId)]
        \o
        [i \in 1..Len(removedUsers) |->
            NotificationDoc(removedUsers[i], "owner", TitleOwnerRemoved,
                            <<"You are no longer an owner for", okrObjective>>, "OKR", okrId)]

\* createProgressNotifications reaching only the first user resolved
createProgressNotificationsToFirst(owners, message, contextLabel, contextId) ==
    LET resolved == IF Len(owners) > 0 THEN uniqueUsers(resolveUsersByLabels(owners)) ELSE <<>>
    IN  IF Len(resolved) = 0 THEN <<>>
        ELSE <<NotificationDoc(resolved[1], "progress", TitleProgress, message,
                               contextLabel, contextId)>>

\* the documents createProgressNotifications hands to createNotifications
createProgressNotifications(owners, message, contextLabel, contextId) ==
    LET resolved == IF Len(owners) > 0 THEN uniqueUsers(resolveUsersByLabels(owners)) ELSE <<>>
    IN  [i \in 1..Len(resolved) |->
            NotificationDoc(resolved[i], "progress", TitleProgress, message,
                            contextLabel, contextId)]

TitleComment == "New comment on your OKR"
TitleMention == "You were mentioned"

\* message.length > 120 ? `${message.slice(0, 117)}...` : message
snippetOf(message) ==
    IF Len(message) > 120 THEN SubSeq(message, 1, 117) \o <<".", ".", ".">> ELSE message

\* the end of a value stored under a schema path declared with trim: true
trimEnd(s) ==
    LET inked == {i \in 1..Len(s) : ~IsWhitespace(s[i])}
    IN  IF inked = {} THEN <<>>
        ELSE SubSeq(s, 1, CHOOSE i \in inked : \A j \in inked : j <= i)

\* createCommentNotifications without the exclusion of the mentioned users
createCommentNotificationsToEveryOwner(okrId, okrObjective, owners, authorId, authorName, message, mentions) ==
    IF Len(owners) = 0 THEN <<>>
    ELSE LET resolvedOwners == uniqueUsers(resolveUsersByLabels(owners))
             isRecipient(u) == u # authorId
             recipients == SelectSeq(resolvedOwners, isRecipient)
         IN  [i \in 1..Len(recipients) |->
                 NotificationDoc(recipients[i], "comment", TitleComment,
                                 <<authorName, "commented on", okrObjective,
                                   trimEnd(snippetOf(message))>>,
                                 "OKR", okrId)]

\* the documents createCommentNotifications hands to createNotifications
createCommentNotifications(okrId, okrObjective, owners, authorId, authorName, message, mentions) ==
    IF Len(owners) = 0 THEN <<>>
    ELSE LET resolvedOwners == uniqueUsers(resolveUsersByLabels(owners))
             mentionUsers == IF Len(mentions) > 0
                             THEN uniqueUsers(resolveUsersByLabels(mentions)) ELSE <<>>
             isRecipient(u) == u # authorId /\ u \notin Range(mentionUsers)
             recipients == SelectSeq(resolvedOwners, isRecipient)
         IN  [i \in 1..Len(recipients) |->
                 NotificationDoc(recipients[i], "comment", TitleComment,
                                 <<authorName, "commented on", okrObjective,
                                   trimEnd(snippetOf(message))>>,
                                 "OKR", okrId)]

\* the documents createMentionNotifications hands to createNotifications
createMentionNotifications(mentions, authorId, authorName, okrId, okrObjective, message) ==
    IF Len(mentions) = 0 THEN <<>>
    ELSE LET notAuthor(u) == u # authorId
             recipients == uniqueUsers(SelectSeq(resolveUsersByLabels(mentions), notAuthor))
         IN  [i \in 1..Len(recipients) |->
                 NotificationDoc(recipients[i], "mention", TitleMention,
                                 <<authorName, "mentioned you on", okrObjective,
                                   trimEnd(snippetOf(message))>>,
                                 "OKR", okrId)]

\* resolveUsersByLabels(labels) queries the directory: some label is not blank
queriesDirectory(labels) == \E i \in 1..Len(labels) : trim(labels[i]) # <<>>

\* A handler awaits its fan-out calls one after the other.  stages lists them
\* as [invoked, docs]: whether the call reaches the directory or the
\* notification store, and the documents it inserts.  failAt is the stage
\* whose query or insertMany rejects (0: none does); the rejection ends the
\* handler, so the stages before it have inserted and the later ones have not.
RECURSIVE insertedUpTo(_, _)
insertedUpTo(stages, n) ==
    IF n = 0 THEN <<>> ELSE insertedUpTo(stages, n - 1) \o stages[n].docs

fanOut(stages, failAt) ==
    LET failed == failAt \in 1..Len(stages) /\ stages[failAt].invoked
    IN  [failed |-> failed,
         inserted |-> insertedUpTo(stages, IF failed THEN failAt - 1 ELSE Len(stages))]

\* the stage that may reject: any of them when the stores are faulty
FaultChoices == IF faults THEN 0..2 ELSE {0}

\* service calls per behaviour
CallBudget == IF faults THEN MaxFaultCalls ELSE MaxCalls

-----------------------------------------------------------------------------
(* The requests the exploration draws from.                                *)

\* an OkrInput with no field supplied
EmptyInput ==
    [objective |-> None, owners |-> None, owner |-> None, createdBy |-> Undefined,
     dueDate |-> None, category |-> None, vertical |-> None,
     status |-> Undefined, progress |-> None, keyResults |-> None]

\* a KeyResultInput
KeyResultInput(id, current, target, status) ==
    [id |-> id, current |-> current, target |-> target, status |-> status]

TitleLaunch == <<"Launch">>
TitleRelaunch == <<"Relaunch">>

\* due dates as the date input of the client sends them (YYYY-MM-DD)
DueApril == <<"2","0","2","5","-","0","4","-","0","1">>
DueJune == <<"2","0","2","5","-","0","6","-","1","5">>
CategoryGrowth == <<"G","r","o","w","t","h">>
VerticalSales == <<"S","a","l","e","s">>

\* the fields postOkr requires of every request body
LaunchInput ==
    [EmptyInput EXCEPT !.objective = Some(TitleLaunch), !.dueDate = Some(DueApril),
                       !.category = Some(CategoryGrowth), !.vertical = Some(VerticalSales)]

KrHalf == KeyResultInput(None, Some(50), Some(100), Undefined)
KrLow == KeyResultInput(None, Some(30), Some(100), Undefined)
KrDoneNoTarget == KeyResultInput(None, None, Some(0), "completed")
KrBare == KeyResultInput(None, None, None, Undefined)
KrAtRisk == KeyResultInput(None, Some(80), Some(100), "atRisk")
KrResent == KeyResultInput(Some(1), Some(100), Some(100), "onTrack")

CreateInputs ==
    { [LaunchInput EXCEPT !.owners = Some(<<LabelAdaFull>>),
                         !.createdBy = "u1", !.keyResults = Some(<<KrHalf>>)],
      [LaunchInput EXCEPT !.owner = Some(LabelBobPadded),
                         !.createdBy = "u2", !.keyResults = Some(<<KrDoneNoTarget, KrAtRisk>>)],
      [LaunchInput EXCEPT !.createdBy = "u1",
                         !.keyResults = Some(<<KrBare>>)],
      [LaunchInput EXCEPT !.owners = Some(<<LabelAdaFirst, LabelAdaEmailShouted>>),
                         !.createdBy = "u2", !.status = "atRisk", !.progress = Some(10),
                         !.keyResults = Some(<<KrLow, KrBare>>)] }

UpdateInputs ==
    { EmptyInput,
      [EmptyInput EXCEPT !.keyResults = Some(<<KrHalf>>)],
      [EmptyInput EXCEPT !.keyResults = Some(<<KrResent, KrLow>>), !.progress = Some(40)],
      [EmptyInput EXCEPT !.owners = Some(<<LabelBobFull>>)],
      [EmptyInput EXCEPT !.owners = Some(<<LabelAdaFirst, LabelBobFull>>)],
      [EmptyInput EXCEPT !.owners = Some(<<>>)],
      [EmptyInput EXCEPT !.owner = Some(LabelBobPadded)],
      [EmptyInput EXCEPT !.progress = Some(150)],
      [EmptyInput EXCEPT !.status = "offTrack", !.objective = Some(TitleRelaunch),
                         !.dueDate = Some(DueJune)],
      [EmptyInput EXCEPT !.status = "completed"],
      [EmptyInput EXCEPT !.owners = Some(<<LabelBobFull>>), !.status = "atRisk",
                         !.createdBy = "u2"] }

\* who sends which update: every input by u1, two of them by others
UpdateRequests ==
    {[actor |-> "u1", input |-> i] : i \in UpdateInputs}
    \cup {[actor |-> "u2", input |-> [EmptyInput EXCEPT !.owners = Some(<<LabelBobFull>>)]],
          [actor |-> "u2", input |-> [EmptyInput EXCEPT !.keyResults = Some(<<KrHalf>>)]],
          [actor |-> Undefined, input |-> [EmptyInput EXCEPT !.progress = Some(150)]]}

KeyResultStatusRequests ==
    { [actor |-> "u1", keyResultId |-> 1, status |-> "completed"],
      [actor |-> "u1", keyResultId |-> 1, status |-> "atRisk"],
      [actor |-> "u1", keyResultId |-> 2, status |-> "completed"],
      [actor |-> "u1", keyResultId |-> 2, status |-> "onTrack"],
      [actor |-> "u2", keyResultId |-> 2, status |-> "offTrack"],
      [actor |-> "u2", keyResultId |-> 1, status |-> "completed"],
      [actor |-> Undefined, keyResultId |-> 1, status |-> "completed"] }

OwnersRequests ==
    { [actor |-> "u1", owners |-> <<LabelBobFull>>],
      [actor |-> "u1", owners |-> <<LabelAdaFull, LabelBobFull>>],
      [actor |-> "u1", owners |-> <<>>],
      [actor |-> "u2", owners |-> <<LabelEve>>],
      [actor |-> "u2", owners |-> <<>>],
      [actor |-> Undefined, owners |-> <<LabelBobFull>>] }

Actors == UserIds \cup {Undefined}

DeleteUserRequests ==
    { [actor |-> "u1", userId |-> "u2"],
      [actor |-> "u2", userId |-> "u2"],
      [actor |-> Undefined, userId |-> "u1"] }

CloneOverrides ==
    { EmptyInput,
      [EmptyInput EXCEPT !.createdBy = "u2", !.owners = Some(<<LabelBobFull>>),
                         !.keyResults = Some(<<KrLow>>)] }

-----------------------------------------------------------------------------
(* The record of the latest service call.                                  *)
(*   outcome: "ok", or the status code of the error the call threw         *)
(*   before / after: the okr document the call loaded / left stored        *)
(*   created: the notification documents the call inserted                 *)

CallRecord(op, outcome, okrId, actor, input, before, after, created) ==
    [op |-> op, outcome |-> outcome, okrId |-> okrId, actor |-> actor,
     input |-> input, before |-> before, after |-> after, created |-> created]

NoCall == CallRecord("none", "ok", 0, Undefined, EmptyInput, None, None, <<>>)

engineIdle ==
    /\ engineInput = <<>>
    /\ engineProgress = 0
    /\ engineStatus = "onTrack"

diffIdle ==
    /\ diffPrevious = <<>>
    /\ diffNext = <<>>
    /\ diffAdded = <<>>
    /\ diffRemoved = <<>>

resolverIdle ==
    /\ resolverLabels = <<>>
    /\ resolverResult = <<>>

mentionIdle ==
    /\ mentionMessage = <<>>
    /\ mentionResult = <<>>

reportIdle ==
    /\ reportZone = 0
    /\ reportFilters = <<>>
    /\ reportResult = <<>>

raceIdle ==
    /\ inflight = <<>>
    /\ versionOf = <<>>

authIdle ==
    /\ accounts = <<>>
    /\ issuedTokens = {}
    /\ nextTokenId = 1

retryIdle ==
    /\ retryOptions = <<>>
    /\ attempt = 0
    /\ lastError = <<>>
    /\ fetched = <<>>
    /\ waiting = FALSE
    /\ settled = <<>>

commentsIdle ==
    /\ comments = <<>>
    /\ nextCommentId = 1

harnessIdle ==
    /\ engineIdle
    /\ diffIdle
    /\ resolverIdle
    /\ mentionIdle
    /\ reportIdle
    /\ raceIdle
    /\ authIdle
    /\ retryIdle

Init ==
    /\ users = UserIds
    /\ okrs = <<>>
    /\ nextOkrId = 1
    /\ notifications = <<>>
    /\ calls = 0
    /\ last = NoCall
    /\ commentsIdle
    /\ faults = FALSE
    /\ harnessIdle

\* a failed call: nothing is written
Fails(op, outcome, okrId, actor, input, before) ==
    /\ last' = CallRecord(op, outcome, okrId, actor, input, before, before, <<>>)
    /\ UNCHANGED <<okrs, nextOkrId, notifications>>

\* a call that has written and then awaits its fan-out: a rejected fan-out
\* surfaces as the call's error (500) after the write
FansOut(op, okrId, actor, input, before, written, stages) ==
    \E failAt \in FaultChoices :
        LET sent == fanOut(stages, failAt)
        IN  /\ notifications' = notifications \o sent.inserted
            /\ last' = CallRecord(op, IF sent.failed THEN "500" ELSE "ok", okrId, actor,
                                  input, before, Some(written), sent.inserted)

-----------------------------------------------------------------------------
(* Objective lifecycle.                                                    *)

\* the document createOkr hands to OkrModel.create
createOkrDocument(input, collection) ==
    LET owners == IF IsSome(input.owners) /\ Len(input.owners[1]) > 0 THEN input.owners[1]
                  ELSE IF IsSome(input.owner) /\ input.owner[1] # <<>> THEN <<input.owner[1]>>
                  ELSE <<>>
        givenKeyResults == Coalesce(input.keyResults, <<>>)
        progress == IF IsSome(input.progress) THEN input.progress[1]
                    ELSE calculateProgress(givenKeyResults)
    IN  [objective |-> Coalesce(input.objective, <<>>),
         owners |-> owners,
         owner |-> trimmedPath(input.owner),
         createdBy |-> input.createdBy,
         dueDate |-> input.dueDate,
         category |-> trimmedPath(input.category),
         vertical |-> trimmedPath(input.vertical),
         status |-> IF input.status # Undefined THEN input.status ELSE "onTrack",
         progress |-> progress,
         keyResults |-> mapKeyResults(givenKeyResults, collection)]

createOkr(input) ==
    LET okr == createOkrDocument(input, okrs)
        id == nextOkrId
        created == IF Len(okr.owners) > 0
                   THEN createOwnerChangeNotifications(id, okr.objective, okr.owners, <<>>)
                   ELSE <<>>
        stages == <<[invoked |-> queriesDirectory(okr.owners), docs |-> created]>>
    IN  /\ calls < CallBudget
        /\ calls' = calls + 1
        /\ IF ~validates(okr)
           THEN Fails("createOkr", "500", 0, Undefined, input, None)
           ELSE /\ okrs' = (id :> okr) @@ okrs
                /\ nextOkrId' = nextOkrId + 1
                /\ FansOut("createOkr", id, Undefined, input, None, okr, stages)
        /\ UNCHANGED users

\* the assignments of updateOkr between the access check and save()
applyOkrInput(okr, input, collection) ==
    LET o1 == IF IsSome(input.objective) THEN [okr EXCEPT !.objective = input.objective[1]] ELSE okr
        o2 == IF IsSome(input.owners)
              THEN [o1 EXCEPT !.owners = input.owners[1],
                              !.owner = IF Len(input.owners[1]) > 0
                                        THEN trimmedPath(Some(input.owners[1][1])) ELSE None]
              ELSE o1
        o3 == IF IsSome(input.owner) THEN [o2 EXCEPT !.owner = trimmedPath(input.owner)] ELSE o2
        o3a == IF IsSome(input.dueDate) THEN [o3 EXCEPT !.dueDate = input.dueDate] ELSE o3
        o3b == IF IsSome(input.category)
               THEN [o3a EXCEPT !.category = trimmedPath(input.category)] ELSE o3a
        o3c == IF IsSome(input.vertical)
               THEN [o3b EXCEPT !.vertical = trimmedPath(input.vertical)] ELSE o3b
        o4 == IF input.status # Undefined THEN [o3c EXCEPT !.status = input.status] ELSE o3c
        o5 == IF IsSome(input.keyResults)
              THEN [o4 EXCEPT !.keyResults = mapKeyResults(input.keyResults[1], collection),
                              !.progress = calculateProgress(input.keyResults[1])]
              ELSE o4
    IN  IF IsSome(input.progress) THEN [o5 EXCEPT !.progress = input.progress[1]] ELSE o5

\* addedOwnersOf comparing the labels trimmed and lower-cased
addedOwnersOfNormalized(previousOwners, nextOwners) ==
    LET isNew(owner) ==
            normalizeLabel(owner) \notin {normalizeLabel(p) : p \in Range(previousOwners)}
    IN  SelectSeq(nextOwners, isNew)

\* next minus previous, by exact string (the addedOwners filter)
addedOwnersOf(previousOwners, nextOwners) ==
    LET isNew(owner) == owner \notin Range(previousOwners)
    IN  SelectSeq(nextOwners, isNew)

\* previous minus next, by exact string (the removedOwners filter)
removedOwnersOf(previousOwners, nextOwners) ==
    LET isGone(owner) == owner \notin Range(nextOwners)
    IN  SelectSeq(previousOwners, isGone)

\* updateOkrNotifications diffing the owners arrays alone, without the
\* fallback to the single owner field
updateOkrNotificationsArraysOnly(id, before, okr) ==
    LET previousOwners == before.owners
        nextOwners == okr.owners
        addedOwners == addedOwnersOf(previousOwners, nextOwners)
        removedOwners == removedOwnersOf(previousOwners, nextOwners)
        ownerChange == IF Len(addedOwners) > 0 \/ Len(removedOwners) > 0
                       THEN createOwnerChangeNotifications(id, okr.objective,
                                                           addedOwners, removedOwners)
                       ELSE <<>>
        progressChange == IF okr.progress # before.progress \/ okr.status # before.status
                          THEN createProgressNotifications(nextOwners,
                                   <<"Progress updated to", okr.progress, okr.objective>>,
                                   "OKR", id)
                          ELSE <<>>
    IN  <<[invoked |-> queriesDirectory(addedOwners \o removedOwners), docs |-> ownerChange],
          [invoked |-> (okr.progress # before.progress \/ okr.status # before.status)
                       /\ queriesDirectory(nextOwners),
           docs |-> progressChange]>>

\* updateOkrNotifications sending the progress notifications to the owners
\* the objective had before the write
updateOkrNotificationsToPreviousOwners(id, before, okr) ==
    LET previousOwners == ownersOf(before)
        nextOwners == ownersOf(okr)
        addedOwners == addedOwnersOf(previousOwners, nextOwners)
        removedOwners == removedOwnersOf(previousOwners, nextOwners)
        ownerChange == IF Len(addedOwners) > 0 \/ Len(removedOwners) > 0
                       THEN createOwnerChangeNotifications(id, okr.objective,
                                                           addedOwners, removedOwners)
                       ELSE <<>>
        changed == okr.progress # before.progress \/ okr.status # before.status
        progressChange == IF changed
                          THEN createProgressNotifications(previousOwners,
                                   <<"Progress updated to", okr.progress, okr.objective>>,
                                   "OKR", id)
                          ELSE <<>>
    IN  <<[invoked |-> queriesDirectory(addedOwners \o removedOwners), docs |-> ownerChange],
          [invoked |-> changed /\ queriesDirectory(previousOwners), docs |-> progressChange]>>

\* the fan-out calls updateOkr awaits after save(), in order
updateOkrNotifications(id, before, okr) ==
    LET previousOwners == ownersOf(before)
        nextOwners == ownersOf(okr)
        addedOwners == addedOwnersOf(previousOwners, nextOwners)
        removedOwners == removedOwnersOf(previousOwners, nextOwners)
        ownerChange == IF Len(addedOwners) > 0 \/ Len(removedOwners) > 0
                       THEN createOwnerChangeNotifications(id, okr.objective,
                                                           addedOwners, removedOwners)
                       ELSE <<>>
        progressChanged == okr.progress # before.progress
        statusChanged == okr.status # before.status
        progressChange == IF progressChanged \/ statusChanged
                          THEN createProgressNotifications(nextOwners,
                                   <<"Progress updated to", okr.progress, okr.objective>>,
                                   "OKR", id)
                          ELSE <<>>
    IN  <<[invoked |-> queriesDirectory(addedOwners \o removedOwners), docs |-> ownerChange],
          [invoked |-> (progressChanged \/ statusChanged) /\ queriesDirectory(nextOwners),
           docs |-> progressChange]>>

updateOkr(id, request) ==
    LET input == request.input
        actor == request.actor
    IN  /\ calls < CallBudget
        /\ calls' = calls + 1
        /\ UNCHANGED users
        /\ IF id \notin DOMAIN okrs
           THEN Fails("updateOkr", "404", id, actor, input, None)
           ELSE LET before == okrs[id]
                    access == ensureOwnerOrCreator(before, actor)
                    okr == applyOkrInput(before, input, [o \in DOMAIN okrs \ {id} |-> okrs[o]])
                    stages == updateOkrNotifications(id, before, okr)
                IN  IF access # "ok"
                    THEN Fails("updateOkr", access, id, actor, input, Some(before))
                    ELSE IF ~validates(okr)
                    THEN Fails("updateOkr", "500", id, actor, input, Some(before))
                    ELSE /\ okrs' = [okrs EXCEPT ![id] = okr]
                         /\ FansOut("updateOkr", id, actor, input, Some(before), okr, stages)
                         /\ UNCHANGED nextOkrId

deleteOkr(id, actor) ==
    /\ calls < CallBudget
    /\ calls' = calls + 1
    /\ UNCHANGED users
    /\ IF id \notin DOMAIN okrs
       THEN Fails("deleteOkr", "404", id, actor, EmptyInput, None)
       ELSE LET before == okrs[id]
                access == ensureDeleteAccess(before, actor)
            IN  IF access # "ok"
                THEN Fails("deleteOkr", access, id, actor, EmptyInput, Some(before))
                ELSE /\ okrs' = [o \in DOMAIN okrs \ {id} |-> okrs[o]]
                     /\ last' = CallRecord("deleteOkr", "ok", id, actor, EmptyInput,
                                           Some(before), None, <<>>)
                     /\ UNCHANGED <<nextOkrId, notifications>>

\* the document cloneOkr hands to OkrModel.create
cloneOkrDocument(okr, overrides, collection) ==
    LET owners == IF IsSome(overrides.owners) /\ Len(overrides.owners[1]) > 0
                  THEN overrides.owners[1] ELSE okr.owners
        keyResults == IF IsSome(overrides.keyResults)
                      THEN mapKeyResults(overrides.keyResults[1], collection)
                      ELSE okr.keyResults
        progress == IF IsSome(overrides.progress) THEN overrides.progress[1]
                    ELSE IF IsSome(overrides.keyResults)
                         THEN calculateProgress(overrides.keyResults[1])
                         ELSE calculateProgress(asKeyResultInputs(okr.keyResults))
    IN  [objective |-> IF IsSome(overrides.objective) THEN overrides.objective[1]
                       ELSE Append(okr.objective, "(Copy)"),
         owners |-> owners,
         owner |-> IF Len(owners) > 0 THEN trimmedPath(Some(owners[1])) ELSE okr.owner,
         createdBy |-> IF overrides.createdBy # Undefined THEN overrides.createdBy
                       ELSE okr.createdBy,
         dueDate |-> IF IsSome(overrides.dueDate) THEN overrides.dueDate ELSE okr.dueDate,
         category |-> IF IsSome(overrides.category) THEN trimmedPath(overrides.category)
                      ELSE okr.category,
         vertical |-> IF IsSome(overrides.vertical) THEN trimmedPath(overrides.vertical)
                      ELSE okr.vertical,
         status |-> IF overrides.status # Undefined THEN overrides.status ELSE okr.status,
         progress |-> progress,
         keyResults |-> keyResults]

cloneOkr(id, overrides) ==
    /\ calls < CallBudget
    /\ calls' = calls + 1
    /\ UNCHANGED users
    /\ IF id \notin DOMAIN okrs
       THEN Fails("cloneOkr", "404", id, Undefined, overrides, None)
       ELSE LET cloned == cloneOkrDocument(okrs[id], overrides, okrs)
                newId == nextOkrId
            IN  IF ~validates(cloned)
                THEN Fails("cloneOkr", "500", id, Undefined, overrides, Some(okrs[id]))
                ELSE /\ okrs' = (newId :> cloned) @@ okrs
                     /\ nextOkrId' = nextOkrId + 1
                     /\ last' = CallRecord("cloneOkr", "ok", newId, Undefined, overrides,
                                           Some(okrs[id]), Some(cloned), <<>>)
                     /\ UNCHANGED notifications

\* okr.keyResults.id(keyResultId): the index of the first sub-document with
\* that _id, 0 when there is none
keyResultIndex(keyResults, keyResultId) ==
    LET hits == {i \in 1..Len(keyResults) : keyResults[i].id = keyResultId}
    IN  IF hits = {} THEN 0 ELSE CHOOSE i \in hits : \A j \in hits : i <= j

\* setKeyResultStatus without the current = target assignment
setKeyResultStatusOnly(keyResult, status) ==
    [keyResult EXCEPT !.status = status]

\* the assignments of updateKeyResultStatus to the key result found
setKeyResultStatus(keyResult, status) ==
    IF keyResult.target > 0 /\ status = "completed"
    THEN [keyResult EXCEPT !.status = status, !.current = keyResult.target]
    ELSE [keyResult EXCEPT !.status = status]

\* the okr document updateKeyResultStatus saves
applyKeyResultStatus(okr, index, status) ==
    LET keyResults == [okr.keyResults EXCEPT ![index] = setKeyResultStatus(@, status)]
    IN  [okr EXCEPT !.keyResults = keyResults,
                    !.progress = calculateProgress(asKeyResultInputs(keyResults)),
                    !.status = deriveOkrStatus(asKeyResultInputs(keyResults))]

updateKeyResultStatus(okrId, request) ==
    LET actor == request.actor
        status == request.status
        keyResultId == request.keyResultId
        input == [keyResultId |-> keyResultId, status |-> status]
    IN  /\ calls < CallBudget
        /\ calls' = calls + 1
        /\ UNCHANGED users
        /\ IF okrId \notin DOMAIN okrs
           THEN Fails("updateKeyResultStatus", "404", okrId, actor, input, None)
           ELSE LET before == okrs[okrId]
                    access == ensureOwnerOrCreator(before, actor)
                    index == keyResultIndex(before.keyResults, keyResultId)
                IN  IF access # "ok"
                    THEN Fails("updateKeyResultStatus", access, okrId, actor, input, Some(before))
                    ELSE IF index = 0
                    THEN Fails("updateKeyResultStatus", "404", okrId, actor, input, Some(before))
                    ELSE LET okr == applyKeyResultStatus(before, index, status)
                             previousStatus == before.keyResults[index].status
                             created == IF previousStatus # status
                                        THEN createProgressNotifications(ownersOf(okr),
                                                 <<"Key result is now", status>>,
                                                 "key result", keyResultId)
                                        ELSE <<>>
                             stages == <<[invoked |-> previousStatus # status
                                                      /\ queriesDirectory(ownersOf(okr)),
                                          docs |-> created]>>
                         IN  IF ~validates(okr)
                             THEN Fails("updateKeyResultStatus", "500", okrId, actor, input,
                                        Some(before))
                             ELSE /\ okrs' = [okrs EXCEPT ![okrId] = okr]
                                  /\ FansOut("updateKeyResultStatus", okrId, actor, input,
                                             Some(before), okr, stages)
                                  /\ UNCHANGED nextOkrId

\* the okr document updateOkrOwners saves
applyOwners(okr, owners) ==
    [okr EXCEPT !.owners = owners, !.owner = trimmedPath(Some(owners[1]))]

updateOkrOwners(okrId, request) ==
    LET actor == request.actor
        owners == request.owners
    IN  /\ calls < CallBudget
        /\ calls' = calls + 1
        /\ UNCHANGED users
        /\ IF Len(owners) = 0
           THEN Fails("updateOkrOwners", "400", okrId, actor, owners,
                      IF okrId \in DOMAIN okrs THEN Some(okrs[okrId]) ELSE None)
           ELSE IF okrId \notin DOMAIN okrs
           THEN Fails("updateOkrOwners", "404", okrId, actor, owners, None)
           ELSE LET before == okrs[okrId]
                    access == ensureOwnerOrCreator(before, actor)
                    previousOwners == ownersOf(before)
                    okr == applyOwners(before, owners)
                    addedOwners == addedOwnersOf(previousOwners, owners)
                    removedOwners == removedOwnersOf(previousOwners, owners)
                    created == IF Len(addedOwners) > 0 \/ Len(removedOwners) > 0
                               THEN createOwnerChangeNotifications(okrId, okr.objective,
                                                                   addedOwners, removedOwners)
                               ELSE <<>>
                    stages == <<[invoked |-> queriesDirectory(addedOwners \o removedOwners),
                                 docs |-> created]>>
                IN  IF access # "ok"
                    THEN Fails("updateOkrOwners", access, okrId, actor, owners, Some(before))
                    ELSE /\ okrs' = [okrs EXCEPT ![okrId] = okr]
                         /\ FansOut("updateOkrOwners", okrId, actor, owners, Some(before),
                                    okr, stages)
                         /\ UNCHANGED nextOkrId

-----------------------------------------------------------------------------
(* User management.                                                        *)

deleteUser(userId, actor) ==
    /\ calls < CallBudget
    /\ calls' = calls + 1
    /\ UNCHANGED <<okrs, nextOkrId, notifications>>
    /\ LET outcome == IF actor = Undefined THEN "401"
                      ELSE IF actor = userId THEN "403"
                      ELSE IF userId \notin users THEN "404"
                      ELSE IF Directory[userId].role = "admin" THEN "403"
                      ELSE "ok"
       IN  /\ users' = IF outcome = "ok" THEN users \ {userId} ELSE users
           /\ last' = CallRecord("deleteUser", outcome, 0, actor, userId, None, None, <<>>)

-----------------------------------------------------------------------------
(* Comments.                                                               *)
(*   comment document: [okrId, authorId, authorName, authorEmail, message, *)
(*                      mentions, replies]                                 *)
(*   reply:            [id, authorId, authorName, authorEmail, message,    *)
(*                      mentions], newest first                            *)
(* A replyId of 0 is an absent or empty replyId (both are falsy).          *)

\* the author fields of a comment or reply; the token carries the e-mail
\* address of the user document it was issued for
buildAuthor(userId) ==
    LET user == Directory[userId]
    IN  [authorId |-> userId,
         authorName |-> IF userId \in users
                        THEN trim(JoinWithSpace(user.firstName, user.lastName))
                        ELSE trim(user.email),
         authorEmail |-> toLowerCase(trim(user.email))]

CommentInput(commentId, replyId, message) ==
    [commentId |-> commentId, replyId |-> replyId, message |-> message]

\* the two fan-out calls createComment and addReply await, in order
commentNotifications(okr, okrId, authorInfo, message, mentions) ==
    LET owners == ownersOf(okr)
    IN  <<[invoked |-> Len(owners) > 0
                       /\ (queriesDirectory(owners) \/ queriesDirectory(mentions)),
           docs |-> createCommentNotifications(okrId, okr.objective, owners,
                                               authorInfo.authorId, authorInfo.authorName,
                                               message, mentions)],
          [invoked |-> queriesDirectory(mentions),
           docs |-> createMentionNotifications(mentions, authorInfo.authorId,
                                               authorInfo.authorName, okrId, okr.objective,
                                               message)]>>

\* a failed comment call that wrote nothing
CommentFails(op, outcome, okrId, actor, input, before) ==
    /\ last' = CallRecord(op, outcome, okrId, actor, input, before, before, <<>>)
    /\ UNCHANGED <<comments, nextCommentId, notifications>>

createComment(okrId, message, author) ==
    LET input == CommentInput(0, 0, message)
    IN  /\ calls < CallBudget
        /\ calls' = calls + 1
        /\ UNCHANGED <<users, okrs, nextOkrId>>
        /\ IF trim(message) = <<>>
           THEN CommentFails("createComment", "400", okrId, author, input, None)
           ELSE IF okrId \notin DOMAIN okrs
           THEN CommentFails("createComment", "404", okrId, author, input, None)
           ELSE LET okr == okrs[okrId]
                    authorInfo == buildAuthor(author)
                    mentions == extractMentions(message)
                    id == nextCommentId
                    comment == [okrId |-> okrId, authorId |-> authorInfo.authorId,
                                authorName |-> authorInfo.authorName,
                                authorEmail |-> authorInfo.authorEmail,
                                message |-> trim(message), mentions |-> mentions,
                                replies |-> <<>>]
                    stages == commentNotifications(okr, okrId, authorInfo, message, mentions)
                IN  /\ comments' = (id :> comment) @@ comments
                    /\ nextCommentId' = nextCommentId + 1
                    /\ FansOut("createComment", okrId, author,
                               CommentInput(id, 0, message), None, comment, stages)

addReply(commentId, message, author) ==
    LET input == CommentInput(commentId, 0, message)
    IN  /\ calls < CallBudget
        /\ calls' = calls + 1
        /\ UNCHANGED <<users, okrs, nextOkrId>>
        /\ IF trim(message) = <<>>
           THEN CommentFails("addReply", "400", 0, author, input, None)
           ELSE IF commentId \notin DOMAIN comments
           THEN CommentFails("addReply", "404", 0, author, input, None)
           ELSE LET before == comments[commentId]
                    authorInfo == buildAuthor(author)
                    mentions == extractMentions(message)
                    id == nextCommentId
                    reply == [id |-> id, authorId |-> authorInfo.authorId,
                              authorName |-> authorInfo.authorName,
                              authorEmail |-> authorInfo.authorEmail,
                              message |-> trim(message), mentions |-> mentions]
                    comment == [before EXCEPT !.replies = <<reply>> \o before.replies]
                    okrId == before.okrId
                IN  /\ comments' = [comments EXCEPT ![commentId] = comment]
                    /\ nextCommentId' = nextCommentId + 1
                    /\ IF okrId \notin DOMAIN okrs
                       THEN /\ last' = CallRecord("addReply", "404", okrId, author,
                                                  CommentInput(commentId, id, message),
                                                  Some(before), Some(comment), <<>>)
                            /\ UNCHANGED notifications
                       ELSE FansOut("addReply", okrId, author,
                                    CommentInput(commentId, id, message), Some(before), comment,
                                    commentNotifications(okrs[okrId], okrId, authorInfo,
                                                         message, mentions))

\* replyIndex taking the newest reply whenever the reply exists
replyIndexNewest(replies, replyId) ==
    IF \E i \in 1..Len(replies) : replies[i].id = replyId THEN 1 ELSE 0

\* comment.replies.id(replyId): the position of the reply, 0 when there is none
replyIndex(replies, replyId) ==
    LET found == {i \in 1..Len(replies) : replies[i].id = replyId}
    IN  IF found = {} THEN 0 ELSE CHOOSE i \in found : \A j \in found : i <= j

updateCommentMessage(commentId, message, replyId) ==
    LET input == CommentInput(commentId, replyId, message)
    IN  /\ calls < CallBudget
        /\ calls' = calls + 1
        /\ UNCHANGED <<users, okrs, nextOkrId>>
        /\ IF trim(message) = <<>>
           THEN CommentFails("updateCommentMessage", "400", 0, Undefined, input, None)
           ELSE IF commentId \notin DOMAIN comments
           THEN CommentFails("updateCommentMessage", "404", 0, Undefined, input, None)
           ELSE LET before == comments[commentId]
                    mentions == extractMentions(message)
                    index == replyIndex(before.replies, replyId)
                    comment == IF replyId # 0
                               THEN [before EXCEPT !.replies[index].message = trim(message),
                                                   !.replies[index].mentions = mentions]
                               ELSE [before EXCEPT !.message = trim(message),
                                                   !.mentions = mentions]
                IN  IF replyId # 0 /\ index = 0
                    THEN CommentFails("updateCommentMessage", "404", before.okrId, Undefined,
                                      input, Some(before))
                    ELSE /\ comments' = [comments EXCEPT ![commentId] = comment]
                         /\ last' = CallRecord("updateCommentMessage", "ok", before.okrId,
                                               Undefined, input, Some(before), Some(comment),
                                               <<>>)
                         /\ UNCHANGED <<nextCommentId, notifications>>

\* withoutReply dropping the replies after the position as well
withoutReplyAndOlder(replies, index) == SubSeq(replies, 1, index - 1)

\* the replies without the one at the position
withoutReply(replies, index) ==
    SubSeq(replies, 1, index - 1) \o SubSeq(replies, index + 1, Len(replies))

\* after is what the call returns: the updated parent, or null
deleteComment(commentId, replyId) ==
    LET input == CommentInput(commentId, replyId, <<>>)
    IN  /\ calls < CallBudget
        /\ calls' = calls + 1
        /\ UNCHANGED <<users, okrs, nextOkrId>>
        /\ IF commentId \notin DOMAIN comments
           THEN CommentFails("deleteComment", "404", 0, Undefined, input, None)
           ELSE LET before == comments[commentId]
                    index == replyIndex(before.replies, replyId)
                    comment == [before EXCEPT !.replies = withoutReply(before.replies, index)]
                IN  IF replyId # 0 /\ index = 0
                    THEN CommentFails("deleteComment", "404", before.okrId, Undefined, input,
                                      Some(before))
                    ELSE /\ comments' = IF replyId # 0
                                        THEN [comments EXCEPT ![commentId] = comment]
                                        ELSE [c \in DOMAIN comments \ {commentId} |-> comments[c]]
                         /\ last' = CallRecord("deleteComment", "ok", before.okrId, Undefined,
                                               input, Some(before),
                                               IF replyId # 0 THEN Some(comment) ELSE None, <<>>)
                         /\ UNCHANGED <<nextCommentId, notifications>>

-----------------------------------------------------------------------------
(* The notification inbox.  A notification's _id is its position in the    *)
(* collection.                                                             *)

ReadInput(ids, markAll) == [ids |-> ids, markAll |-> markAll]

\* setRead removing the selected documents instead of flagging them
setReadByRemoval(selected) ==
    LET kept == {i \in 1..Len(notifications) : i \notin selected}
        position(k) == CHOOSE i \in kept : Cardinality({j \in kept : j <= i}) = k
    IN  [k \in 1..Cardinality(kept) |-> notifications[position(k)]]

\* updateMany(filter, {$set: {isRead: true}})
setRead(selected) ==
    [i \in 1..Len(notifications) |->
        IF i \in selected THEN [notifications[i] EXCEPT !.isRead = TRUE] ELSE notifications[i]]

\* markNotificationsRead filtering by _id alone, without the userId
markNotificationsReadOfAnyone(userId, ids, markAll) ==
    LET mine == {i \in 1..Len(notifications) : notifications[i].userId = userId}
        unread == {i \in mine : ~notifications[i].isRead}
    IN  /\ calls < CallBudget
        /\ calls' = calls + 1
        /\ UNCHANGED <<users, okrs, nextOkrId, comments, nextCommentId>>
        /\ IF markAll
           THEN /\ notifications' = setRead(unread)
                /\ last' = CallRecord("markNotificationsRead", "ok", 0, userId,
                                      ReadInput(ids, markAll), None, None, <<>>)
           ELSE IF ids = {}
           THEN /\ last' = CallRecord("markNotificationsRead", "400", 0, userId,
                                      ReadInput(ids, markAll), None, None, <<>>)
                /\ UNCHANGED notifications
           ELSE /\ notifications' = setRead(ids)
                /\ last' = CallRecord("markNotificationsRead", "ok", 0, userId,
                                      ReadInput(ids, markAll), None, None, <<>>)

markNotificationsRead(userId, ids, markAll) ==
    LET mine == {i \in 1..Len(notifications) : notifications[i].userId = userId}
        unread == {i \in mine : ~notifications[i].isRead}
    IN  /\ calls < CallBudget
        /\ calls' = calls + 1
        /\ UNCHANGED <<users, okrs, nextOkrId, comments, nextCommentId>>
        /\ IF markAll
           THEN /\ notifications' = setRead(unread)
                /\ last' = CallRecord("markNotificationsRead", "ok", 0, userId,
                                      ReadInput(ids, markAll), None, None, <<>>)
           ELSE IF ids = {}
           THEN /\ last' = CallRecord("markNotificationsRead", "400", 0, userId,
                                      ReadInput(ids, markAll), None, None, <<>>)
                /\ UNCHANGED notifications
           ELSE /\ notifications' = setRead(mine \cap ids)
                /\ last' = CallRecord("markNotificationsRead", "ok", 0, userId,
                                      ReadInput(ids, markAll), None, None, <<>>)

markNotificationRead(userId, notificationId) ==
    LET found == notificationId \in 1..Len(notifications)
                 /\ notifications[notificationId].userId = userId
    IN  /\ calls < CallBudget
        /\ calls' = calls + 1
        /\ UNCHANGED <<users, okrs, nextOkrId, comments, nextCommentId>>
        /\ notifications' = IF found THEN setRead({notificationId}) ELSE notifications
        /\ last' = CallRecord("markNotificationRead", IF found THEN "ok" ELSE "404", 0, userId,
                              ReadInput({notificationId}, FALSE), None, None, <<>>)

-----------------------------------------------------------------------------
(* The service specification.                                              *)

OkrIdsSeen == 1..(nextOkrId - 1)

CreateOkr ==
    /\ \E input \in CreateInputs : createOkr(input)
    /\ UNCHANGED otherVars

UpdateOkr ==
    /\ \E id \in OkrIdsSeen, request \in UpdateRequests : updateOkr(id, request)
    /\ UNCHANGED otherVars

DeleteOkr ==
    /\ \E id \in OkrIdsSeen, actor \in Actors : deleteOkr(id, actor)
    /\ UNCHANGED otherVars

CloneOkr ==
    /\ \E id \in OkrIdsSeen, overrides \in CloneOverrides : cloneOkr(id, overrides)
    /\ UNCHANGED otherVars

UpdateKeyResultStatus ==
    /\ \E id \in OkrIdsSeen, request \in KeyResultStatusRequests :
           updateKeyResultStatus(id, request)
    /\ UNCHANGED otherVars

UpdateOkrOwners ==
    /\ \E id \in OkrIdsSeen, request \in OwnersRequests : updateOkrOwners(id, request)
    /\ UNCHANGED otherVars

DeleteUser ==
    /\ \E request \in DeleteUserRequests : deleteUser(request.userId, request.actor)
    /\ UNCHANGED otherVars

Next ==
    \/ CreateOkr
    \/ UpdateOkr
    \/ DeleteOkr
    \/ CloneOkr
    \/ UpdateKeyResultStatus
    \/ UpdateOkrOwners
    \/ DeleteUser

Spec == Init /\ [][Next]_vars

-----------------------------------------------------------------------------
(* The Progress Engine on its own: the key-result list grows one key       *)
(* result at a time and the engine is applied to it.                       *)

EngineCurrents == {-50, 39, 40, 69, 70, 150}

EngineKeyResults ==
    {KeyResultInput(None, Some(c), Some(100), Undefined) : c \in EngineCurrents}
    \cup {KeyResultInput(None, Some(50), Some(100), st) : st \in KeyResultStatuses}
    \cup {KeyResultInput(None, None, Some(0), st) : st \in KeyResultStatuses}
    \cup {KeyResultInput(None, Some(1), Some(3), Undefined),
          KeyResultInput(None, Some(2), Some(3), Undefined),
          KrBare}

serviceIdle ==
    /\ users = UserIds
    /\ okrs = <<>>
    /\ nextOkrId = 1
    /\ notifications = <<>>
    /\ calls = 0
    /\ last = NoCall

EngineInit == serviceIdle /\ commentsIdle /\ faults = FALSE /\ harnessIdle

EngineAppend ==
    /\ Len(engineInput) < MaxEngineLen
    /\ \E keyResult \in EngineKeyResults :
           /\ engineInput' = Append(engineInput, keyResult)
           /\ engineProgress' = calculateProgress(Append(engineInput, keyResult))
           /\ engineStatus' = deriveOkrStatus(Append(engineInput, keyResult))
    /\ UNCHANGED <<serviceVars, commentVars, faults, diffVars, resolverVars, mentionVars,
                   reportVars, raceVars,
                   authVars, retryVars>>

EngineNext == EngineAppend

EngineSpec == EngineInit /\ [][EngineNext]_vars

-----------------------------------------------------------------------------
(* The ownership diff on its own: both owner lists grow one label at a     *)
(* time and the two filters are applied to them.                           *)

DiffLabels == {LabelAdaFull, LabelBobFull, LabelBobPadded, LabelAdaFirst}

DiffInit == serviceIdle /\ commentsIdle /\ faults = FALSE /\ harnessIdle

DiffAppendPrevious ==
    /\ Len(diffPrevious) < MaxDiffLen
    /\ \E label \in DiffLabels :
           /\ diffPrevious' = Append(diffPrevious, label)
           /\ diffAdded' = addedOwnersOf(Append(diffPrevious, label), diffNext)
           /\ diffRemoved' = removedOwnersOf(Append(diffPrevious, label), diffNext)
    /\ UNCHANGED <<serviceVars, commentVars, faults, engineVars, diffNext, resolverVars,
                   mentionVars, reportVars, raceVars,
                   authVars, retryVars>>

DiffAppendNext ==
    /\ Len(diffNext) < MaxDiffLen
    /\ \E label \in DiffLabels :
           /\ diffNext' = Append(diffNext, label)
           /\ diffAdded' = addedOwnersOf(diffPrevious, Append(diffNext, label))
           /\ diffRemoved' = removedOwnersOf(diffPrevious, Append(diffNext, label))
    /\ UNCHANGED <<serviceVars, commentVars, faults, engineVars, diffPrevious,
                   resolverVars, mentionVars, reportVars, raceVars,
                   authVars, retryVars>>

DiffNext == DiffAppendPrevious \/ DiffAppendNext

DiffSpec == DiffInit /\ [][DiffNext]_vars

-----------------------------------------------------------------------------
(* Mention extraction on its own: the message grows one fragment at a time *)
(* and extractMentions is applied to it.                                   *)

TextGreatWork == <<"G","r","e","a","t"," ","w","o","r","k"," ">>
TextAnd == <<" ","a","n","d"," ">>
TextComma == <<",", " ">>
TextBang == <<"!">>
AtAdaLovelace == <<"@">> \o LabelAdaFull
AtBobLower == <<"@","b","o","b">>
AtBobUpper == <<"@","B","o","b">>
AtDots == <<"@",".",".">>

MentionFragments ==
    {TextGreatWork, TextAnd, TextComma, TextBang, AtAdaLovelace, AtBobLower, AtBobUpper, AtDots}

\* the text made of the fragments, in order
RECURSIVE concatenate(_)
concatenate(fragments) ==
    IF fragments = <<>> THEN <<>> ELSE Head(fragments) \o concatenate(Tail(fragments))

MentionInit ==
    /\ serviceIdle /\ commentsIdle /\ faults = FALSE
    /\ harnessIdle

MentionAppend ==
    /\ Len(mentionMessage) < MaxMentionLen
    /\ \E fragment \in MentionFragments :
           /\ mentionMessage' = Append(mentionMessage, fragment)
           /\ mentionResult' = extractMentions(concatenate(Append(mentionMessage, fragment)))
    /\ UNCHANGED <<serviceVars, commentVars, faults, engineVars, diffVars, resolverVars,
                   reportVars, raceVars,
                   authVars, retryVars>>

MentionNext == MentionAppend

MentionSpec == MentionInit /\ [][MentionNext]_vars

-----------------------------------------------------------------------------
(* The Directory Resolver on its own: any part of the directory exists,    *)
(* the label list grows one label at a time and is resolved.               *)

ResolverLabels ==
    {LabelAdaFull, LabelAdaEmailShouted, LabelAdaFirst, LabelAdaLast, LabelAdaPartial,
     LabelBobPadded, LabelEve, LabelEmpty, LabelMiaFull, LabelMiaLast, LabelMailHost}

ResolverInit ==
    /\ users \in SUBSET DirectoryIds
    /\ okrs = <<>>
    /\ nextOkrId = 1
    /\ notifications = <<>>
    /\ calls = 0
    /\ last = NoCall
    /\ commentsIdle /\ faults = FALSE
    /\ harnessIdle

ResolverAppend ==
    /\ Len(resolverLabels) < MaxResolverLen
    /\ \E label \in ResolverLabels :
           /\ resolverLabels' = Append(resolverLabels, label)
           /\ resolverResult' = uniqueUsers(resolveUsersByLabels(Append(resolverLabels, label)))
    /\ UNCHANGED <<serviceVars, commentVars, faults, engineVars, diffVars, mentionVars,
                   reportVars, raceVars,
                   authVars, retryVars>>

ResolverNext == ResolverAppend

ResolverSpec == ResolverInit /\ [][ResolverNext]_vars

-----------------------------------------------------------------------------
(* Comments, replies and the inbox next to the objective operations: the   *)
(* exploration starts from one objective that carries a comment with two   *)
(* replies, and every operation is drawn from a short list of requests.    *)

TextNice == <<"N","i","c","e">>
MessageMentionAda == AtAdaLovelace \o TextBang
MessageMentionBob == <<" ">> \o AtBobLower \o <<" ">>
MessageGreatWork == TextGreatWork \o AtAdaLovelace \o TextAnd \o AtBobLower
MessageBlank == <<" ", " ">>

ThreadOkrInput ==
    [LaunchInput EXCEPT !.owners = Some(<<LabelAdaFull, LabelBobPadded>>),
                        !.createdBy = "u1", !.keyResults = Some(<<KrHalf, KrLow>>)]

ThreadOkr == createOkrDocument(ThreadOkrInput, <<>>)

\* the reply a user adds with this message
ThreadReply(id, author, message) ==
    [id |-> id, authorId |-> author, authorName |-> buildAuthor(author).authorName,
     authorEmail |-> buildAuthor(author).authorEmail, message |-> trim(message),
     mentions |-> extractMentions(message)]

\* comment 1 by Mia, then reply 2 by Bob and reply 3 by Ada
ThreadComment ==
    [okrId |-> 1, authorId |-> "u3", authorName |-> buildAuthor("u3").authorName,
     authorEmail |-> buildAuthor("u3").authorEmail, message |-> TextNice,
     mentions |-> <<>>,
     replies |-> <<ThreadReply(3, "u1", MessageMentionBob), ThreadReply(2, "u2", TextNice)>>]

\* what createOkr, createComment and the two addReply calls inserted
ThreadNotifications ==
    createOwnerChangeNotifications(1, ThreadOkr.objective, ThreadOkr.owners, <<>>)
    \o insertedUpTo(commentNotifications(ThreadOkr, 1, buildAuthor("u3"), TextNice, <<>>), 2)
    \o insertedUpTo(commentNotifications(ThreadOkr, 1, buildAuthor("u2"), TextNice, <<>>), 2)
    \o insertedUpTo(commentNotifications(ThreadOkr, 1, buildAuthor("u1"), MessageMentionBob,
                                         extractMentions(MessageMentionBob)), 2)

threadPresent ==
    /\ users = DirectoryIds
    /\ okrs = (1 :> ThreadOkr)
    /\ nextOkrId = 2
    /\ notifications = ThreadNotifications
    /\ calls = 0
    /\ last = NoCall
    /\ comments = (1 :> ThreadComment)
    /\ nextCommentId = 4
    /\ harnessIdle

CommentInit == threadPresent /\ faults = FALSE

CommentRequests ==
    { [okrId |-> 1, author |-> "u3", message |-> MessageGreatWork],
      [okrId |-> 1, author |-> "u1", message |-> MessageMentionAda],
      [okrId |-> 1, author |-> "u2", message |-> MessageMentionAda] }

ReplyRequests ==
    { [commentId |-> 1, author |-> "u2", message |-> TextNice],
      [commentId |-> 1, author |-> "u3", message |-> MessageGreatWork],
      [commentId |-> 2, author |-> "u1", message |-> TextNice] }

UpdateCommentRequests ==
    { CommentInput(1, 0, MessageMentionBob),
      CommentInput(1, 2, MessageMentionAda),
      CommentInput(1, 0, MessageBlank),
      CommentInput(1, 9, TextNice) }

DeleteCommentRequests ==
    { CommentInput(1, 0, <<>>),
      CommentInput(1, 2, <<>>),
      CommentInput(1, 3, <<>>),
      CommentInput(1, 9, <<>>) }

ReadRequests ==
    { [userId |-> "u1", ids |-> {}, markAll |-> TRUE],
      [userId |-> "u2", ids |-> {1, 2}, markAll |-> FALSE],
      [userId |-> "u2", ids |-> {}, markAll |-> FALSE] }

ReadOneRequests ==
    { [userId |-> "u1", notificationId |-> 1],
      [userId |-> "u1", notificationId |-> 2] }

\* what the comment and inbox operations leave alone
threadOtherVars == <<faults, engineVars, diffVars, resolverVars, mentionVars, reportVars,
                     raceVars,
                   authVars, retryVars>>

CreateComment ==
    /\ \E request \in CommentRequests :
           createComment(request.okrId, request.message, request.author)
    /\ UNCHANGED threadOtherVars

AddReply ==
    /\ \E request \in ReplyRequests :
           addReply(request.commentId, request.message, request.author)
    /\ UNCHANGED threadOtherVars

UpdateCommentMessage ==
    /\ \E request \in UpdateCommentRequests :
           updateCommentMessage(request.commentId, request.message, request.replyId)
    /\ UNCHANGED threadOtherVars

DeleteComment ==
    /\ \E request \in DeleteCommentRequests : deleteComment(request.commentId, request.replyId)
    /\ UNCHANGED threadOtherVars

MarkNotificationsRead ==
    /\ \E request \in ReadRequests :
           markNotificationsRead(request.userId, request.ids, request.markAll)
    /\ UNCHANGED threadOtherVars

MarkNotificationRead ==
    /\ \E request \in ReadOneRequests :
           markNotificationRead(request.userId, request.notificationId)
    /\ UNCHANGED threadOtherVars

\* one request of each objective operation
ThreadCreateOkr ==
    /\ createOkr([LaunchInput EXCEPT !.owners = Some(<<LabelAdaFull>>), !.createdBy = "u1",
                                     !.keyResults = Some(<<KrHalf>>)])
    /\ UNCHANGED otherVars

ThreadUpdateOkr ==
    /\ updateOkr(1, [actor |-> "u1",
                     input |-> [EmptyInput EXCEPT !.owners = Some(<<LabelBobFull>>),
                                                  !.status = "atRisk"]])
    /\ UNCHANGED otherVars

ThreadDeleteOkr ==
    /\ deleteOkr(1, "u1")
    /\ UNCHANGED otherVars

ThreadCloneOkr ==
    /\ cloneOkr(1, EmptyInput)
    /\ UNCHANGED otherVars

ThreadUpdateKeyResultStatus ==
    /\ updateKeyResultStatus(1, [actor |-> "u1", keyResultId |-> 1, status |-> "completed"])
    /\ UNCHANGED otherVars

ThreadUpdateOkrOwners ==
    /\ updateOkrOwners(1, [actor |-> "u1", owners |-> <<LabelEve>>])
    /\ UNCHANGED otherVars

ThreadDeleteUser ==
    /\ deleteUser("u2", "u1")
    /\ UNCHANGED otherVars

CommentNext ==
    \/ CreateComment
    \/ AddReply
    \/ UpdateCommentMessage
    \/ DeleteComment
    \/ MarkNotificationsRead
    \/ MarkNotificationRead
    \/ ThreadCreateOkr
    \/ ThreadUpdateOkr
    \/ ThreadDeleteOkr
    \/ ThreadCloneOkr
    \/ ThreadUpdateKeyResultStatus
    \/ ThreadUpdateOkrOwners
    \/ ThreadDeleteUser

CommentSpec == CommentInit /\ [][CommentNext]_vars

-----------------------------------------------------------------------------
(* The operations that fan out, with a directory and a notification store  *)
(* that may reject a query or an insertMany.                               *)

FaultInit == threadPresent /\ faults = TRUE

FaultNext ==
    \/ CreateComment
    \/ AddReply
    \/ ThreadCreateOkr
    \/ ThreadUpdateOkr
    \/ ThreadUpdateKeyResultStatus
    \/ ThreadUpdateOkrOwners

FaultSpec == FaultInit /\ [][FaultNext]_vars

-----------------------------------------------------------------------------
(* Two requests on the same objective in flight at once.  A request loads  *)
(* the document (findById), assigns to its own copy and saves it; save()   *)
(* validates the copy and sends the paths whose value differs from the     *)
(* loaded one.  A $set of a whole array makes the update conditional on    *)
(* the version key (__v) and increments it; a $set below an array position *)
(* makes it conditional on the version key alone; an update that matches   *)
(* no document then rejects with a VersionError.                           *)

RaceSlots == {"a", "b"}

RaceOkrInput ==
    [LaunchInput EXCEPT !.owners = Some(<<LabelAdaFull>>), !.createdBy = "u1",
                        !.keyResults = Some(<<KrHalf, KrHalf>>)]

RaceOkr == createOkrDocument(RaceOkrInput, <<>>)

RaceRequest(op, input, keyResultId, status) ==
    [op |-> op, actor |-> "u1", input |-> input, keyResultId |-> keyResultId, status |-> status]

RaceUpdateRequests ==
    { RaceRequest("updateOkr", [EmptyInput EXCEPT !.objective = Some(TitleRelaunch)], 0, Undefined),
      RaceRequest("updateOkr", [EmptyInput EXCEPT !.dueDate = Some(DueJune)], 0, Undefined),
      RaceRequest("updateOkr", [EmptyInput EXCEPT !.owners = Some(<<LabelBobFull>>)], 0, Undefined),
      RaceRequest("updateOkr", [EmptyInput EXCEPT !.owners = Some(<<LabelAdaFull, LabelBobFull>>)],
                  0, Undefined),
      RaceRequest("updateOkr", [EmptyInput EXCEPT !.status = "atRisk"], 0, Undefined),
      RaceRequest("updateOkr", [EmptyInput EXCEPT !.status = RaceOkr.status], 0, Undefined) }

RaceStatusRequests ==
    { RaceRequest("updateKeyResultStatus", EmptyInput, 1, "completed"),
      RaceRequest("updateKeyResultStatus", EmptyInput, 2, "completed"),
      RaceRequest("updateKeyResultStatus", EmptyInput, 2, "atRisk") }

RaceInit ==
    /\ users = UserIds
    /\ okrs = (1 :> RaceOkr)
    /\ nextOkrId = 2
    /\ notifications = createOwnerChangeNotifications(1, RaceOkr.objective, RaceOkr.owners, <<>>)
    /\ calls = 0
    /\ last = NoCall
    /\ commentsIdle
    /\ faults = FALSE
    /\ engineIdle /\ diffIdle /\ resolverIdle /\ mentionIdle /\ reportIdle
    /\ authIdle /\ retryIdle
    /\ inflight = <<>>
    /\ versionOf = (1 :> 0)

\* what the interleaved requests leave alone
raceOtherVars == <<users, nextOkrId, commentVars, faults, engineVars, diffVars, resolverVars,
                   mentionVars, reportVars,
                   authVars, retryVars>>

\* findById and the access check of a request; seen is the number of
\* requests that had completed by then
load(slot, request) ==
    LET loaded == okrs[1]
        access == ensureOwnerOrCreator(loaded, request.actor)
    IN  /\ slot \notin DOMAIN inflight
        /\ inflight' = (slot :> [request |-> request, loaded |-> loaded,
                                 version |-> versionOf[1], seen |-> calls,
                                 stage |-> IF access = "ok" THEN "loaded" ELSE "done",
                                 outcome |-> IF access = "ok" THEN "pending" ELSE access,
                                 written |-> loaded, order |-> 0]) @@ inflight
        /\ UNCHANGED <<okrs, notifications, calls, last, versionOf>>

\* the top-level paths of an okr document
OkrPaths ==
    {"objective", "owners", "owner", "dueDate", "category", "vertical", "status", "progress",
     "keyResults"}

\* the paths a save() of the copy sends: those whose value is not the loaded one
modifiedPaths(loaded, okr) == {path \in OkrPaths : okr[path] # loaded[path]}

\* the stored document after a $set of the paths to the copy's values
setPaths(stored, okr, paths) ==
    [path \in DOMAIN stored |-> IF path \in paths THEN okr[path] ELSE stored[path]]

\* the request's save() and what follows it; mode is "all" (conditional on
\* the version key and incrementing it), "where" (conditional only) or "none"
complete(slot, okr, mode, stored, stages) ==
    LET flight == inflight[slot]
        request == flight.request
        conflict == mode # "none" /\ versionOf[1] # flight.version
        input == IF request.op = "updateOkr" THEN request.input
                 ELSE [keyResultId |-> request.keyResultId, status |-> request.status]
        outcome == IF ~validates(okr) \/ conflict THEN "500" ELSE "ok"
    IN  /\ calls' = calls + 1
        /\ inflight' = [inflight EXCEPT ![slot] = [flight EXCEPT !.stage = "done",
                                                                 !.outcome = outcome,
                                                                 !.written = okr,
                                                                 !.order = calls + 1]]
        /\ IF outcome # "ok"
           THEN /\ last' = CallRecord(request.op, outcome, 1, request.actor, input,
                                      Some(flight.loaded), Some(okrs[1]), <<>>)
                /\ UNCHANGED <<okrs, notifications, versionOf>>
           ELSE /\ okrs' = [okrs EXCEPT ![1] = stored]
                /\ versionOf' = [versionOf EXCEPT ![1] = IF mode = "all" THEN @ + 1 ELSE @]
                /\ FansOut(request.op, 1, request.actor, input, Some(flight.loaded), okr, stages)

saveUpdateOkr(slot) ==
    LET flight == inflight[slot]
        okr == applyOkrInput(flight.loaded, flight.request.input, <<>>)
        paths == modifiedPaths(flight.loaded, okr)
        mode == IF paths \cap {"owners", "keyResults"} # {} THEN "all" ELSE "none"
    IN  complete(slot, okr, mode, setPaths(okrs[1], okr, paths),
                 updateOkrNotifications(1, flight.loaded, okr))

saveKeyResultStatus(slot) ==
    LET flight == inflight[slot]
        request == flight.request
        index == keyResultIndex(flight.loaded.keyResults, request.keyResultId)
        okr == applyKeyResultStatus(flight.loaded, index, request.status)
        positional == okr.keyResults[index] # flight.loaded.keyResults[index]
        paths == modifiedPaths(flight.loaded, okr) \ {"keyResults"}
        stored == IF positional /\ index <= Len(okrs[1].keyResults)
                  THEN [setPaths(okrs[1], okr, paths) EXCEPT
                           !.keyResults[index].status = okr.keyResults[index].status,
                           !.keyResults[index].current = okr.keyResults[index].current]
                  ELSE setPaths(okrs[1], okr, paths)
        previousStatus == flight.loaded.keyResults[index].status
        created == IF previousStatus # request.status
                   THEN createProgressNotifications(ownersOf(okr),
                            <<"Key result is now", request.status>>, "key result",
                            request.keyResultId)
                   ELSE <<>>
        stages == <<[invoked |-> previousStatus # request.status
                                 /\ queriesDirectory(ownersOf(okr)),
                     docs |-> created]>>
    IN  complete(slot, okr, IF positional THEN "where" ELSE "none", stored, stages)

LoadForUpdateOkr ==
    /\ \E slot \in RaceSlots, request \in RaceUpdateRequests : load(slot, request)
    /\ UNCHANGED raceOtherVars

LoadForKeyResultStatus ==
    /\ \E slot \in RaceSlots, request \in RaceStatusRequests : load(slot, request)
    /\ UNCHANGED raceOtherVars

SaveUpdateOkr ==
    /\ \E slot \in DOMAIN inflight :
           /\ inflight[slot].stage = "loaded"
           /\ inflight[slot].request.op = "updateOkr"
           /\ saveUpdateOkr(slot)
    /\ UNCHANGED raceOtherVars

SaveKeyResultStatus ==
    /\ \E slot \in DOMAIN inflight :
           /\ inflight[slot].stage = "loaded"
           /\ inflight[slot].request.op = "updateKeyResultStatus"
           /\ saveKeyResultStatus(slot)
    /\ UNCHANGED raceOtherVars

RaceNext ==
    \/ LoadForUpdateOkr
    \/ LoadForKeyResultStatus
    \/ SaveUpdateOkr
    \/ SaveKeyResultStatus

RaceSpec == RaceInit /\ [][RaceNext]_vars

-----------------------------------------------------------------------------
(* Reports.  A Date is [year, month, day] in the server's time zone, month *)
(* counted from 0 as getMonth() does.  The one-line labels of a report are *)
(* one-element tuples, so that they compare with the category and          *)
(* vertical texts; a trend is [text, diff], the text being the template    *)
(* around the number.                                                      *)

DigitChars == <<"0","1","2","3","4","5","6","7","8","9">>

digitOf(c) == (CHOOSE i \in DOMAIN DigitChars : DigitChars[i] = c) - 1

\* Number(s) of a run of decimal digits
RECURSIVE numberOf(_)
numberOf(s) ==
    IF s = <<>> THEN 0
    ELSE 10 * numberOf(SubSeq(s, 1, Len(s) - 1)) + digitOf(s[Len(s)])

\* String(n) of a natural number
RECURSIVE decimalOf(_)
decimalOf(n) ==
    IF n < 10 THEN <<DigitChars[n + 1]>>
    ELSE decimalOf(n \div 10) \o <<DigitChars[(n % 10) + 1]>>

IsLeapYear(year) == year % 4 = 0 /\ (year % 100 # 0 \/ year % 400 = 0)

\* the days of the month, month counted from 1
DaysInMonth(year, month) ==
    IF month = 2 THEN (IF IsLeapYear(year) THEN 29 ELSE 28)
    ELSE IF month \in {4, 6, 9, 11} THEN 30
    ELSE 31

\* the date-only form YYYY-MM-DD of a calendar day
IsDateOnly(value) ==
    /\ Len(value) = 10
    /\ value[5] = "-"
    /\ value[8] = "-"
    /\ \A i \in {1, 2, 3, 4, 6, 7, 9, 10} : value[i] \in Digits
    /\ numberOf(SubSeq(value, 6, 7)) \in 1..12
    /\ numberOf(SubSeq(value, 9, 10))
           \in 1..DaysInMonth(numberOf(SubSeq(value, 1, 4)), numberOf(SubSeq(value, 6, 7)))

\* new Date("YYYY-MM-DD") is midnight UTC of that day; getFullYear(),
\* getMonth() and getDate() read it in the server's zone, which is the day
\* before when the zone is behind UTC
localDate(year, month, day, zone) ==
    IF zone >= 0 THEN [year |-> year, month |-> month - 1, day |-> day]
    ELSE IF day > 1 THEN [year |-> year, month |-> month - 1, day |-> day - 1]
    ELSE IF month > 1
    THEN [year |-> year, month |-> month - 2, day |-> DaysInMonth(year, month - 1)]
    ELSE [year |-> year - 1, month |-> 11, day |-> 31]

\* parseDate: null for a missing or empty value and for an Invalid Date
parseDate(value) ==
    IF ~IsSome(value) \/ value[1] = <<>> THEN None
    ELSE IF ~IsDateOnly(value[1]) THEN None
    ELSE Some(localDate(numberOf(SubSeq(value[1], 1, 4)), numberOf(SubSeq(value[1], 6, 7)),
                        numberOf(SubSeq(value[1], 9, 10)), reportZone))

StatusOnTrackNames == {<<"o","n","t","r","a","c","k">>, <<"o","n","_","t","r","a","c","k">>,
                       <<"o","n","-","t","r","a","c","k">>}
StatusAtRiskNames == {<<"a","t","r","i","s","k">>, <<"a","t","_","r","i","s","k">>,
                      <<"a","t","-","r","i","s","k">>}
StatusOffTrackNames == {<<"o","f","f","t","r","a","c","k">>, <<"o","f","f","_","t","r","a","c","k">>,
                        <<"o","f","f","-","t","r","a","c","k">>}
StatusCompletedName == <<"c","o","m","p","l","e","t","e","d">>

normalizeStatusFilter(status) ==
    IF ~IsSome(status) \/ status[1] = <<>> THEN Undefined
    ELSE LET normalized == toLowerCase(status[1])
         IN  IF normalized \in StatusOnTrackNames THEN "onTrack"
             ELSE IF normalized \in StatusAtRiskNames THEN "atRisk"
             ELSE IF normalized \in StatusOffTrackNames THEN "offTrack"
             ELSE IF normalized = StatusCompletedName THEN "completed"
             ELSE Undefined

\* new Date().getFullYear() at the time of the request
CurrentYear == 2025

getReportYear(input) == IF IsSome(input) THEN input[1] ELSE CurrentYear

getQuarterIndex(date) == date.month \div 3

\* the characters of the texts in the order of their code units
CodeOrder ==
    <<" ", "!", ",", "-", ".">> \o DigitChars \o <<"?", "@">> \o UpperCaseLetters
    \o <<"_">> \o LowerCaseLetters

codeOf(c) == CHOOSE i \in DOMAIN CodeOrder : CodeOrder[i] = c

\* a sorts before b
RECURSIVE TextBefore(_, _)
TextBefore(a, b) ==
    IF b = <<>> THEN FALSE
    ELSE IF a = <<>> THEN TRUE
    ELSE IF Head(a) # Head(b) THEN codeOf(Head(a)) < codeOf(Head(b))
    ELSE TextBefore(Tail(a), Tail(b))

\* the ids in the order of sort({dueDate: 1}), ties in the order of the ids
RECURSIVE sortByDueDate(_)
sortByDueDate(ids) ==
    IF ids = {} THEN <<>>
    ELSE LET due(id) == okrs[id].dueDate[1]
             first == CHOOSE id \in ids :
                          \A other \in ids \ {id} :
                              \/ TextBefore(due(id), due(other))
                              \/ due(id) = due(other) /\ id < other
         IN  <<first>> \o sortByDueDate(ids \ {first})

AllTeams == {<<"a","l","l"," ","t","e","a","m","s">>,
             <<"a","l","l"," ","d","e","p","a","r","t","m","e","n","t","s">>}

\* the query of getReportSnapshot: the due date starts with the year, the
\* status is the filter's, and the team filter occurs in the category, the
\* vertical, the owner or an owner label
matchesQuery(okr, year, statusFilter, teamFilter) ==
    /\ IsSome(okr.dueDate)
    /\ Len(okr.dueDate[1]) >= Len(decimalOf(year))
    /\ SubSeq(okr.dueDate[1], 1, Len(decimalOf(year))) = decimalOf(year)
    /\ (statusFilter \notin {Undefined, "completed"}) => okr.status = statusFilter
    /\ (teamFilter # <<>> /\ toLowerCase(teamFilter) \notin AllTeams)
       => \/ IsSome(okr.category) /\ ContainsIgnoreCase(okr.category[1], teamFilter)
          \/ IsSome(okr.vertical) /\ ContainsIgnoreCase(okr.vertical[1], teamFilter)
          \/ IsSome(okr.owner) /\ ContainsIgnoreCase(okr.owner[1], teamFilter)
          \/ \E i \in 1..Len(okr.owners) : ContainsIgnoreCase(okr.owners[i], teamFilter)

ReportFilters(year, team, status) == [year |-> year, team |-> team, status |-> status]

\* the okrs of the snapshot, as [status, progress, category, vertical, dueDate]
getReportSnapshot(filters) ==
    LET year == getReportYear(filters.year)
        statusFilter == normalizeStatusFilter(filters.status)
        teamFilter == IF IsSome(filters.team) THEN trim(filters.team[1]) ELSE <<>>
        found == sortByDueDate({id \in DOMAIN okrs :
                                   matchesQuery(okrs[id], year, statusFilter, teamFilter)})
        items == [i \in 1..Len(found) |->
                     [status |-> okrs[found[i]].status, progress |-> okrs[found[i]].progress,
                      category |-> okrs[found[i]].category, vertical |-> okrs[found[i]].vertical,
                      dueDate |-> okrs[found[i]].dueDate]]
        keeps(okr) ==
            /\ parseDate(okr.dueDate) # None
            /\ parseDate(okr.dueDate)[1].year = year
            /\ statusFilter = "completed" => okr.progress >= 100
    IN  [year |-> year, okrs |-> SelectSeq(items, keeps)]

FocusDefault == <<"Cross-team alignment">>

\* okr.category?.trim() || okr.vertical?.trim(), the empty text when neither
focusLabelOf(okr) ==
    IF IsSome(okr.category) /\ trim(okr.category[1]) # <<>> THEN trim(okr.category[1])
    ELSE IF IsSome(okr.vertical) THEN trim(okr.vertical[1])
    ELSE <<>>

buildFocusLabel(items) ==
    LET isLabelled(okr) == focusLabelOf(okr) # <<>>
        labelled == SelectSeq(items, isLabelled)
        labels == insertionOrder([i \in 1..Len(labelled) |-> focusLabelOf(labelled[i])])
        count(label) == Cardinality({i \in 1..Len(labelled) : focusLabelOf(labelled[i]) = label})
    IN  IF labels = <<>> THEN FocusDefault
        ELSE labels[CHOOSE i \in 1..Len(labels) :
                        /\ \A j \in 1..Len(labels) : count(labels[j]) <= count(labels[i])
                        /\ \A j \in 1..(i - 1) : count(labels[j]) < count(labels[i])]

calculateAverageProgress(items) ==
    IF items = <<>> THEN 0
    ELSE RoundDiv(SumSeq([i \in 1..Len(items) |-> items[i].progress]), Len(items))

QuarterLabels == <<"Q1", "Q2", "Q3", "Q4">>

TrendBaseline == [text |-> "Baseline quarter", diff |-> 0]
TrendNoChange == [text |-> "No change vs last quarter", diff |-> 0]
TrendUp(diff) == [text |-> "+% vs last quarter", diff |-> diff]
TrendDown(diff) == [text |-> "% vs last quarter", diff |-> diff]

\* the quarters of the report
getQuarterlyReport(filters) ==
    LET snapshot == getReportSnapshot(filters)
        bucketItems(index) ==
            LET inQuarter(okr) == getQuarterIndex(parseDate(okr.dueDate)[1]) = index
            IN  SelectSeq(snapshot.okrs, inQuarter)
        progress(index) == calculateAverageProgress(bucketItems(index))
        trend(index) ==
            LET diff == progress(index) - progress(index - 1)
            IN  IF index = 0 THEN TrendBaseline
                ELSE IF diff = 0 THEN TrendNoChange
                ELSE IF diff > 0 THEN TrendUp(diff)
                ELSE TrendDown(diff)
    IN  [q \in 1..4 |->
            [quarter |-> QuarterLabels[q],
             progress |-> progress(q - 1),
             okrs |-> Len(bucketItems(q - 1)),
             focus |-> buildFocusLabel(bucketItems(q - 1)),
             trend |-> trend(q - 1)]]

\* the server's offset from UTC in hours
ReportZones == {0, -5, 5}

DueNewYear == <<"2","0","2","5","-","0","1","-","0","1">>
DueLastYear == <<"2","0","2","4","-","1","1","-","3","0">>
DueSoon == <<"2","0","2","5"," ","s","o","o","n">>

ReportInputs ==
    { [LaunchInput EXCEPT !.createdBy = "u1", !.owners = Some(<<LabelAdaFull>>),
                          !.keyResults = Some(<<KrHalf>>)],
      [LaunchInput EXCEPT !.createdBy = "u1", !.dueDate = Some(DueJune),
                          !.category = None, !.keyResults = Some(<<KrLow>>)],
      [LaunchInput EXCEPT !.createdBy = "u2", !.dueDate = Some(DueNewYear),
                          !.status = "atRisk", !.keyResults = Some(<<KrResent>>)],
      [LaunchInput EXCEPT !.createdBy = "u2", !.dueDate = Some(DueLastYear),
                          !.keyResults = Some(<<KrHalf>>)],
      [LaunchInput EXCEPT !.createdBy = "u1", !.dueDate = Some(DueSoon)] }

ReportRequests ==
    { ReportFilters(Some(2025), None, None),
      ReportFilters(None, Some(CategoryGrowth), None),
      ReportFilters(Some(2025), None, Some(StatusCompletedName)),
      ReportFilters(Some(2024), None, Some(<<"A","t","-","R","i","s","k">>)) }

ReportInit ==
    /\ users = UserIds
    /\ okrs = <<>>
    /\ nextOkrId = 1
    /\ notifications = <<>>
    /\ calls = 0
    /\ last = NoCall
    /\ commentsIdle
    /\ faults = FALSE
    /\ engineIdle /\ diffIdle /\ resolverIdle /\ mentionIdle /\ raceIdle
    /\ authIdle /\ retryIdle
    /\ reportZone \in ReportZones
    /\ reportFilters = <<>>
    /\ reportResult = <<>>

ReportCreateOkr ==
    /\ \E input \in ReportInputs : createOkr(input)
    /\ reportFilters' = <<>>
    /\ reportResult' = <<>>
    /\ UNCHANGED <<commentVars, faults, engineVars, diffVars, resolverVars, mentionVars,
                   reportZone, raceVars,
                   authVars, retryVars>>

GetQuarterlyReport ==
    /\ \E filters \in ReportRequests :
           /\ reportFilters' = <<filters>>
           /\ reportResult' = getQuarterlyReport(filters)
    /\ UNCHANGED <<serviceVars, commentVars, faults, engineVars, diffVars, resolverVars,
                   mentionVars, reportZone, raceVars,
                   authVars, retryVars>>

ReportNext ==
    \/ ReportCreateOkr
    \/ GetQuarterlyReport

ReportSpec == ReportInit /\ [][ReportNext]_vars

-----------------------------------------------------------------------------
(* Sessions: the refresh-token operations of the auth service.  A signed   *)
(* refresh token is modelled by the payload it carries; Forged stands for  *)
(* a token verifyRefreshToken throws on (bad signature or expired).        *)

\* auth service calls per behaviour
MaxAuthCalls == 4

AlphaNumerics ==
    DOMAIN LowerCaseOf \cup {LowerCaseOf[c] : c \in DOMAIN LowerCaseOf} \cup Range(DigitChars)

\* email.trim().toLowerCase()
normalizeEmail(email) == toLowerCase(trim(email))

\* whether ensureStrongPassword lets the password pass
ensureStrongPassword(password) ==
    LET hasNumber == \E i \in 1..Len(password) : password[i] \in Range(DigitChars)
        hasSpecial == \E i \in 1..Len(password) : password[i] \notin AlphaNumerics
    IN  ~(Len(password) < 8 \/ ~hasNumber \/ ~hasSpecial)

hashPassword(password) == <<"#">> \o password

verifyPassword(password, passwordHash) == passwordHash = hashPassword(password)

RefreshTokenPayload(userId, tokenId) == [userId |-> userId, tokenId |-> tokenId]

Forged == RefreshTokenPayload(Undefined, 0)

\* whether verifyRefreshToken returns the payload instead of throwing
verifyRefreshToken(refreshToken) == refreshToken # Forged

\* issueTokens leaving a refreshTokenId that is already set as it is
issueTokensWithoutRotation(user, refreshTokenId) ==
    IF IsSome(user.refreshTokenId) THEN user
    ELSE [user EXCEPT !.refreshTokenId = Some(refreshTokenId)]

\* the assignments of issueTokens to the user document
issueTokens(user, refreshTokenId) ==
    [user EXCEPT !.refreshTokenId = Some(refreshTokenId)]

PasswordFirst == <<"P","a","s","s","w","0","r","d","!">>
PasswordSecond == <<"N","3","w","-","P","a","s","s">>
PasswordWeak == <<"p","a","s","s","w","o","r","d">>

\* the credential fields of a registered user
Account(email, password, isEmailVerified) ==
    [email |-> normalizeEmail(email), passwordHash |-> Some(hashPassword(password)),
     isEmailVerified |-> isEmailVerified, passwordResetToken |-> None,
     refreshTokenId |-> None]

\* Ada has verified her email, Bob has not yet
AuthInit ==
    /\ users = UserIds
    /\ okrs = <<>>
    /\ nextOkrId = 1
    /\ notifications = <<>>
    /\ calls = 0
    /\ last = NoCall
    /\ commentsIdle
    /\ faults = FALSE
    /\ engineIdle /\ diffIdle /\ resolverIdle /\ mentionIdle /\ reportIdle /\ raceIdle
    /\ retryIdle
    /\ accounts = ("u1" :> Account(AdaEmail, PasswordFirst, TRUE))
                  @@ ("u2" :> Account(BobEmail, PasswordFirst, FALSE))
    /\ issuedTokens = {}
    /\ nextTokenId = 1

authOtherVars == <<users, okrs, nextOkrId, notifications, commentVars, faults, engineVars,
                   diffVars, resolverVars, mentionVars, reportVars, raceVars, retryVars>>

\* UserModel.findOne({ email })
findByEmail(email) == {u \in users \cap DOMAIN accounts : accounts[u].email = email}

AuthRecord(op, outcome, userId, input) ==
    CallRecord(op, outcome, 0, userId, input, None, None, <<>>)

\* the call throws before it writes
AuthFails(op, outcome, userId, input) ==
    /\ last' = AuthRecord(op, outcome, userId, input)
    /\ UNCHANGED <<accounts, issuedTokens, nextTokenId>>

\* issueTokens(user); await user.save()
SavesIssued(op, userId, user, input) ==
    /\ accounts' = [accounts EXCEPT ![userId] = issueTokens(user, nextTokenId)]
    /\ issuedTokens' = issuedTokens \cup {RefreshTokenPayload(userId, nextTokenId)}
    /\ nextTokenId' = nextTokenId + 1
    /\ last' = AuthRecord(op, "ok", userId, input)

loginUser(emailInput, password) ==
    LET email == normalizeEmail(emailInput)
        found == findByEmail(email)
        input == [email |-> emailInput, password |-> password]
    IN  /\ calls < MaxAuthCalls
        /\ calls' = calls + 1
        /\ IF found = {} THEN AuthFails("loginUser", "404", Undefined, input)
           ELSE LET userId == CHOOSE u \in found : TRUE
                    user == accounts[userId]
                IN  IF ~IsSome(user.passwordHash)
                    THEN AuthFails("loginUser", "404", userId, input)
                    ELSE IF ~verifyPassword(password, user.passwordHash[1])
                    THEN AuthFails("loginUser", "401", userId, input)
                    ELSE IF ~user.isEmailVerified
                    THEN AuthFails("loginUser", "403", userId, input)
                    ELSE SavesIssued("loginUser", userId, user, input)

\* loginWithGoogle for a Google profile whose email belongs to a user
loginWithGoogle(emailInput) ==
    LET email == normalizeEmail(emailInput)
        found == findByEmail(email)
    IN  /\ calls < MaxAuthCalls
        /\ calls' = calls + 1
        /\ found # {}
        /\ LET userId == CHOOSE u \in found : TRUE
               existingUser == [accounts[userId] EXCEPT !.isEmailVerified = TRUE]
           IN  SavesIssued("loginWithGoogle", userId, existingUser, emailInput)

\* "ok", or the status code refreshSession throws for the token
refreshOutcome(refreshToken) ==
    IF ~verifyRefreshToken(refreshToken) THEN "401"
    ELSE IF refreshToken.userId \notin users \cap DOMAIN accounts THEN "401"
    ELSE LET user == accounts[refreshToken.userId]
         IN  IF ~IsSome(user.refreshTokenId) \/ user.refreshTokenId[1] # refreshToken.tokenId
             THEN "401"
             ELSE "ok"

refreshSession(refreshToken) ==
    /\ calls < MaxAuthCalls
    /\ calls' = calls + 1
    /\ IF refreshOutcome(refreshToken) # "ok"
       THEN AuthFails("refreshSession", refreshOutcome(refreshToken), refreshToken.userId,
                      refreshToken)
       ELSE SavesIssued("refreshSession", refreshToken.userId, accounts[refreshToken.userId],
                        refreshToken)

logoutSession(refreshToken) ==
    /\ calls < MaxAuthCalls
    /\ calls' = calls + 1
    /\ IF ~verifyRefreshToken(refreshToken)
       THEN AuthFails("logoutSession", "401", refreshToken.userId, refreshToken)
       ELSE LET userId == refreshToken.userId
                matches == /\ userId \in users \cap DOMAIN accounts
                           /\ accounts[userId].refreshTokenId = Some(refreshToken.tokenId)
            IN  /\ accounts' = IF matches
                               THEN [accounts EXCEPT ![userId].refreshTokenId = None]
                               ELSE accounts
                /\ last' = AuthRecord("logoutSession", "ok", userId, refreshToken)
                /\ UNCHANGED <<issuedTokens, nextTokenId>>

requestPasswordReset(emailInput) ==
    LET found == findByEmail(normalizeEmail(emailInput))
    IN  /\ calls < MaxAuthCalls
        /\ calls' = calls + 1
        /\ IF found = {} THEN AuthFails("requestPasswordReset", "404", Undefined, emailInput)
           ELSE LET userId == CHOOSE u \in found : TRUE
                IN  /\ accounts' = [accounts EXCEPT
                                       ![userId].passwordResetToken = Some(nextTokenId)]
                    /\ nextTokenId' = nextTokenId + 1
                    /\ last' = AuthRecord("requestPasswordReset", "ok", userId, emailInput)
                    /\ UNCHANGED issuedTokens

\* token 0 stands for a reset token that is unknown or has expired
resetPassword(token, newPassword) ==
    LET found == {u \in users \cap DOMAIN accounts :
                     accounts[u].passwordResetToken = Some(token)}
        input == [token |-> token, password |-> newPassword]
    IN  /\ calls < MaxAuthCalls
        /\ calls' = calls + 1
        /\ IF found = {} THEN AuthFails("resetPassword", "400", Undefined, input)
           ELSE LET userId == CHOOSE u \in found : TRUE
                IN  IF ~ensureStrongPassword(newPassword)
                    THEN AuthFails("resetPassword", "400", userId, input)
                    ELSE /\ accounts' = [accounts EXCEPT
                                ![userId].passwordHash = Some(hashPassword(newPassword)),
                                ![userId].passwordResetToken = None,
                                ![userId].refreshTokenId = None]
                         /\ last' = AuthRecord("resetPassword", "ok", userId, input)
                         /\ UNCHANGED <<issuedTokens, nextTokenId>>

LoginRequests ==
    { [email |-> LabelAdaEmailShouted, password |-> PasswordFirst],
      [email |-> AdaEmail, password |-> PasswordSecond],
      [email |-> BobEmail, password |-> PasswordFirst],
      [email |-> LabelEve, password |-> PasswordFirst] }

ResetPasswords == {PasswordSecond, PasswordWeak}

LoginUser ==
    /\ \E request \in LoginRequests : loginUser(request.email, request.password)
    /\ UNCHANGED authOtherVars

LoginWithGoogle ==
    /\ loginWithGoogle(BobEmail)
    /\ UNCHANGED authOtherVars

RefreshSession ==
    /\ \E refreshToken \in issuedTokens \cup {Forged} : refreshSession(refreshToken)
    /\ UNCHANGED authOtherVars

LogoutSession ==
    /\ \E refreshToken \in issuedTokens \cup {Forged} : logoutSession(refreshToken)
    /\ UNCHANGED authOtherVars

RequestPasswordReset ==
    /\ \E email \in {AdaEmail, LabelEve} : requestPasswordReset(email)
    /\ UNCHANGED authOtherVars

ResetPassword ==
    /\ \E token \in 0..(nextTokenId - 1), newPassword \in ResetPasswords :
           resetPassword(token, newPassword)
    /\ UNCHANGED authOtherVars

AuthNext ==
    \/ LoginUser
    \/ LoginWithGoogle
    \/ RefreshSession
    \/ LogoutSession
    \/ RequestPasswordReset
    \/ ResetPassword

AuthSpec == AuthInit /\ [][AuthNext]_vars

-----------------------------------------------------------------------------
(* fetchWithRetry of the client.  One behaviour is one call: the options   *)
(* are fixed at the start, every fetch settles with a response or rejects  *)
(* with an error, and the back-off wait between two attempts always ends.  *)

\* the largest retries option explored (the callers pass 0 or 2)
MaxRetries == 2

\* a settled fetch: a response with its status, or the error it rejected with
Responded(status) == [response |-> Some(status), error |-> None]
Rejected(error) == [response |-> None, error |-> Some(error)]

\* fetch rejects with a TypeError on a network failure
NetworkError == [name |-> "TypeError", status |-> 0]

\* new Error(`Request failed with status ${response.status}`)
StatusError(status) == [name |-> "Error", status |-> status]

FetchStatuses == {200, 404, 429, 500, 503}

FetchOutcomes == {Responded(status) : status \in FetchStatuses} \cup {Rejected(NetworkError)}

defaultShouldRetry(response, error) ==
    IF IsSome(error) THEN TRUE
    ELSE IF ~IsSome(response) THEN FALSE
    ELSE response[1] >= 500 \/ response[1] = 429

\* a shouldRetry option: retry a 503 response and nothing else
retryUnavailableOnly(response, error) ==
    ~IsSome(error) /\ IsSome(response) /\ response[1] = 503

\* options?.shouldRetry ?? defaultShouldRetry, applied
shouldRetry(options, response, error) ==
    IF options.shouldRetry = "retryUnavailableOnly" THEN retryUnavailableOnly(response, error)
    ELSE defaultShouldRetry(response, error)

\* options?.retries ?? 0
retriesOf(options) == Coalesce(options.retries, 0)

RetryOptions ==
    {[retries |-> r, shouldRetry |-> p] :
        r \in {None} \cup {Some(n) : n \in 0..MaxRetries},
        p \in {Undefined, "retryUnavailableOnly"}}

\* if (attempt === retries) break, taken one attempt early
breaksEarly(attemptNow, retries) == attemptNow + 1 >= retries

\* if (attempt === retries) break
breaks(attemptNow, retries) == attemptNow = retries

Returned(response) == [kind |-> "returned", response |-> Some(response), error |-> None]
Thrown(error) == [kind |-> "thrown", response |-> None, error |-> Some(error)]

\* throw lastError if it is an Error, else new Error("Request failed after retries.")
throwAfterLoop(error) ==
    IF IsSome(error) THEN Thrown(error[1]) ELSE Thrown([name |-> "Error", status |-> 0])

RetryInit ==
    /\ serviceIdle /\ commentsIdle /\ faults = FALSE
    /\ engineIdle /\ diffIdle /\ resolverIdle /\ mentionIdle /\ reportIdle /\ raceIdle
    /\ authIdle
    /\ retryOptions \in {Some(options) : options \in RetryOptions}
    /\ attempt = 0
    /\ lastError = None
    /\ fetched = <<>>
    /\ waiting = FALSE
    /\ settled = None

retryOtherVars == <<serviceVars, commentVars, faults, engineVars, diffVars, resolverVars,
                    mentionVars, reportVars, raceVars, authVars, retryOptions>>

\* one pass through the loop body, from the fetch to the break or the wait
attemptFetch(outcome) ==
    LET options == retryOptions[1]
        retries == retriesOf(options)
        retryable == shouldRetry(options, outcome.response, outcome.error)
        error == IF IsSome(outcome.response) THEN StatusError(outcome.response[1])
                 ELSE outcome.error[1]
    IN  /\ settled = None
        /\ ~waiting
        /\ attempt <= retries
        /\ fetched' = Append(fetched, outcome)
        /\ UNCHANGED attempt
        /\ IF ~retryable
           THEN /\ settled' = Some(IF IsSome(outcome.response)
                                   THEN Returned(outcome.response[1])
                                   ELSE Thrown(outcome.error[1]))
                /\ UNCHANGED <<lastError, waiting>>
           ELSE /\ lastError' = Some(error)
                /\ IF breaks(attempt, retries)
                   THEN /\ settled' = Some(throwAfterLoop(Some(error)))
                        /\ UNCHANGED waiting
                   ELSE /\ waiting' = TRUE
                        /\ UNCHANGED settled

\* the timer of wait() fires: attempt += 1 and the loop condition is tested
endWait ==
    /\ settled = None
    /\ waiting
    /\ waiting' = FALSE
    /\ attempt' = attempt + 1
    /\ settled' = IF attempt + 1 <= retriesOf(retryOptions[1]) THEN None
                  ELSE Some(throwAfterLoop(lastError))
    /\ UNCHANGED <<lastError, fetched>>

AttemptFetch ==
    /\ \E outcome \in FetchOutcomes : attemptFetch(outcome)
    /\ UNCHANGED retryOtherVars

EndWait ==
    /\ endWait
    /\ UNCHANGED retryOtherVars

RetryNext ==
    \/ AttemptFetch
    \/ EndWait

\* every fetch settles and every timer fires
RetrySpec == RetryInit /\ [][RetryNext]_vars /\ WF_vars(AttemptFetch) /\ WF_vars(EndWait)

-----------------------------------------------------------------------------
(* Vocabulary of the claims, stated independently of the service code.     *)

\* the owner labels an objective counts as having
EffectiveOwners(okr) ==
    IF okr.owners # <<>> THEN okr.owners
    ELSE IF okr.owner # None /\ okr.owner[1] # <<>> THEN <<okr.owner[1]>>
    ELSE <<>>

\* the Access Gate's ownerMatch for an actor with a user record
OwnerMatch(okr, actor) ==
    /\ actor \in users
    /\ LET user == Directory[actor]
           names == {toLowerCase(trim(user.email)),
                     toLowerCase(trim(JoinWithSpace(user.firstName, user.lastName)))}
           labels == Range(okr.owners) \cup (IF okr.owner # None THEN {okr.owner[1]} ELSE {})
       IN  \E label \in labels : trim(label) # <<>> /\ toLowerCase(trim(label)) \in names

\* the Access Gate's creatorMatch
CreatorMatch(okr, actor) == actor # Undefined /\ okr.createdBy = actor

GatedOps == {"updateOkr", "updateKeyResultStatus", "updateOkrOwners", "deleteOkr"}

\* the step just taken was a gated call on an existing objective by an actor
\* who is neither owner nor creator of it
DeniedStep ==
    /\ last'.op \in GatedOps
    /\ last'.before # None
    /\ ~OwnerMatch(last'.before[1], last'.actor)
    /\ ~CreatorMatch(last'.before[1], last'.actor)

\* C1 as stated: a gated call by an actor who is neither owner nor creator
\* fails with Forbidden, or Unauthorized when no actor is supplied, and
\* writes nothing.
C1_DeniedForbiddenOrNoActor ==
    [][DeniedStep =>
        /\ last'.outcome = (IF last'.actor = Undefined THEN "401" ELSE "403")
        /\ okrs' = okrs
        /\ notifications' = notifications]_vars

\* C1 amended: such a call always fails and writes nothing; the error is
\* Unauthorized when no actor is supplied or the actor has no user record,
\* InvalidArgument for updateOkrOwners with an empty owner list (checked
\* before the gate), and Forbidden otherwise.
C1_DeniedWritesNothing ==
    [][DeniedStep =>
        /\ last'.outcome =
              (IF last'.op = "updateOkrOwners" /\ last'.input = <<>> THEN "400"
               ELSE IF last'.actor = Undefined \/ last'.actor \notin users THEN "401"
               ELSE "403")
        /\ okrs' = okrs
        /\ notifications' = notifications]_vars

\* an update by an existing user who is neither owner nor creator was refused
C1_Witness ==
    /\ last.op \in GatedOps
    /\ last.outcome = "403"
    /\ last.before # None
    /\ last.actor \in users
    /\ ~OwnerMatch(last.before[1], last.actor)
    /\ ~CreatorMatch(last.before[1], last.actor)

\* the latest call was a successful updateOkr / createOkr / ...
Succeeded(op) == last.op = op /\ last.outcome = "ok"

\* C2: after a successful updateOkr whose input has keyResults and neither
\* progress nor status, the stored progress and the stored status are the
\* Progress Engine's outputs on the supplied key results.
C2_UpdateRecomputesBoth ==
    (/\ Succeeded("updateOkr")
     /\ last.input.keyResults # None
     /\ last.input.progress = None
     /\ last.input.status = Undefined)
    => /\ okrs[last.okrId].progress = calculateProgress(last.input.keyResults[1])
       /\ okrs[last.okrId].status = deriveOkrStatus(last.input.keyResults[1])

\* C3: createOkr without progress and status stores the Progress Engine's
\* outputs on the supplied key results; owners ["Ada Lovelace"] with the one
\* key result {current: 50, target: 100} gives progress 50 and status atRisk.
C3_CreateDerivesBoth ==
    (/\ Succeeded("createOkr")
     /\ last.input.progress = None
     /\ last.input.status = Undefined)
    => LET supplied == Coalesce(last.input.keyResults, <<>>)
           okr == okrs[last.okrId]
       IN  /\ okr.progress = calculateProgress(supplied)
           /\ okr.status = deriveOkrStatus(supplied)
           /\ (last.input.owners = Some(<<LabelAdaFull>>) /\ supplied = <<KrHalf>>)
                 => (okr.progress = 50 /\ okr.status = "atRisk")

\* C4: every stored objective has a non-empty effective owner list.
C4_OwnersNeverEmpty ==
    \A id \in DOMAIN okrs : EffectiveOwners(okrs[id]) # <<>>

\* C5: every stored objective has an integer progress in 0..100 and a status
\* among onTrack, atRisk and offTrack.
C5_ProgressAndStatusInRange ==
    \A id \in DOMAIN okrs :
        /\ okrs[id].progress \in 0..100
        /\ okrs[id].status \in OkrStatuses

\* the contribution the claim gives a key result
ClaimedContribution(keyResult) ==
    LET target == Coalesce(keyResult.target, 0)
        current == Coalesce(keyResult.current, 0)
    IN  IF target > 0
        THEN (IF current >= target THEN 100 ELSE RoundDiv(current * 100, target))
        ELSE IF keyResult.status = Undefined THEN 0
        ELSE statusScores(keyResult.status)

\* C6: calculateProgress returns an integer in 0..100, the rounded mean of
\* the per-key-result contributions (0 for the empty list).
C6_ProgressWithinRange ==
    /\ engineProgress \in 0..100
    /\ engineProgress =
          (IF engineInput = <<>> THEN 0
           ELSE RoundDiv(SumSeq([i \in 1..Len(engineInput) |->
                                    ClaimedContribution(engineInput[i])]),
                         Len(engineInput)))

\* the key result counts as off track / at risk for the objective's status
ResolvesOffTrack(keyResult) ==
    \/ keyResult.status = "offTrack"
    \/ /\ keyResult.status = Undefined
       /\ Coalesce(keyResult.target, 0) # 0
       /\ RatioBelow(Coalesce(keyResult.current, 0), keyResult.target[1], 4, 10)

ResolvesAtRisk(keyResult) ==
    \/ keyResult.status = "atRisk"
    \/ /\ keyResult.status = Undefined
       /\ Coalesce(keyResult.target, 0) # 0
       /\ ~RatioBelow(Coalesce(keyResult.current, 0), keyResult.target[1], 4, 10)
       /\ RatioBelow(Coalesce(keyResult.current, 0), keyResult.target[1], 7, 10)

ClaimedStatus(keyResults) ==
    IF \E i \in 1..Len(keyResults) : ResolvesOffTrack(keyResults[i]) THEN "offTrack"
    ELSE IF \E i \in 1..Len(keyResults) : ResolvesAtRisk(keyResults[i]) THEN "atRisk"
    ELSE "onTrack"

\* C7: the derived status is offTrack if any key result resolves to off
\* track, else atRisk if any resolves to at risk, else onTrack; it is the
\* same for every permutation of the list; and a non-empty list of key
\* results that all have target 0 and status completed gives progress 100
\* and status onTrack.
C7_StatusByDominance ==
    /\ engineStatus = ClaimedStatus(engineInput)
    /\ \A p \in Permutations(1..Len(engineInput)) :
           deriveOkrStatus([i \in 1..Len(engineInput) |-> engineInput[p[i]]]) = engineStatus
    /\ (/\ engineInput # <<>>
        /\ \A i \in 1..Len(engineInput) :
               /\ Coalesce(engineInput[i].target, 0) = 0
               /\ engineInput[i].status = "completed")
       => (engineProgress = 100 /\ engineStatus = "onTrack")

\* an at-risk key result is followed by an off-track one, and off track wins
C7_Witness ==
    /\ Len(engineInput) >= 2
    /\ ResolvesAtRisk(engineInput[1])
    /\ engineInput[1].status = Undefined
    /\ ResolvesOffTrack(engineInput[2])
    /\ engineStatus = "offTrack"

\* C8: after a successful updateKeyResultStatus to completed on a key result
\* with target > 0, that key result's current is its target, the other key
\* results are unchanged, and the objective's progress and status are the
\* Progress Engine's outputs on the updated list; a lone key result with
\* target 100 ends with current 100 and progress 100.
C8_CompletedFillsCurrent ==
    (/\ Succeeded("updateKeyResultStatus")
     /\ last.input.status = "completed")
    => LET before == last.before[1].keyResults
           okr == okrs[last.okrId]
           index == CHOOSE i \in 1..Len(before) :
                        /\ before[i].id = last.input.keyResultId
                        /\ \A j \in 1..(i - 1) : before[j].id # last.input.keyResultId
       IN  before[index].target > 0
           => /\ Len(okr.keyResults) = Len(before)
              /\ okr.keyResults[index].current = before[index].target
              /\ okr.keyResults[index].target = before[index].target
              /\ okr.keyResults[index].status = "completed"
              /\ \A j \in 1..Len(before) : j # index => okr.keyResults[j] = before[j]
              /\ okr.progress = calculateProgress(asKeyResultInputs(okr.keyResults))
              /\ okr.status = deriveOkrStatus(asKeyResultInputs(okr.keyResults))
              /\ (Len(before) = 1 /\ before[index].target = 100)
                    => (okr.keyResults[index].current = 100 /\ okr.progress = 100)

\* a lone key result at 50 of 100 was completed
C8_Witness ==
    /\ Succeeded("updateKeyResultStatus")
    /\ last.input.status = "completed"
    /\ Len(last.before[1].keyResults) = 1
    /\ last.before[1].keyResults[1].target = 100
    /\ last.before[1].keyResults[1].current = 50
    /\ okrs[last.okrId].progress = 100

\* C9: the added list is next minus previous and the removed list previous
\* minus next, by exact string; they are disjoint, and with the labels in
\* both lists they make up next and previous together.
C9_DiffPartitions ==
    LET previous == Range(diffPrevious)
        next == Range(diffNext)
        added == Range(diffAdded)
        removed == Range(diffRemoved)
    IN  /\ added = next \ previous
        /\ removed = previous \ next
        /\ added \cap removed = {}
        /\ added \cup removed \cup (previous \cap next) = next \cup previous

\* one label added, one removed and one kept
C9_Witness ==
    /\ diffAdded # <<>>
    /\ diffRemoved # <<>>
    /\ Range(diffPrevious) \cap Range(diffNext) # {}

\* the users the Directory Resolver resolves from a set of labels
ResolvedFrom(labels) ==
    {u \in users : \E label \in labels : userMatchesLabel(Directory[u], label)}

\* the recipients of the owner notifications with this title among those the
\* latest call created
OwnerNotified(title) ==
    {last.created[i].userId :
        i \in {j \in 1..Len(last.created) :
                  last.created[j].type = "owner" /\ last.created[j].title = title}}

\* C10: after a successful updateOkr or updateOkrOwners the "added" owner
\* notifications go to exactly the users resolved from the labels in the
\* owner list after the write and not before, the "removed" ones to exactly
\* the users resolved from the labels before and not after, one each, all
\* referring to the objective; labels in both lists yield none.
C10_OwnerNotificationsFollowDiff ==
    (Succeeded("updateOkr") \/ Succeeded("updateOkrOwners"))
    => LET previous == Range(EffectiveOwners(last.before[1]))
           next == Range(EffectiveOwners(okrs[last.okrId]))
           ownerDocs == {i \in 1..Len(last.created) : last.created[i].type = "owner"}
       IN  /\ OwnerNotified(TitleOwnerAdded) = ResolvedFrom(next \ previous)
           /\ OwnerNotified(TitleOwnerRemoved) = ResolvedFrom(previous \ next)
           /\ \A i \in ownerDocs :
                  /\ last.created[i].title \in {TitleOwnerAdded, TitleOwnerRemoved}
                  /\ last.created[i].contextLabel = "OKR"
                  /\ last.created[i].contextId = last.okrId
           /\ \A i, j \in ownerDocs :
                  (/\ last.created[i].userId = last.created[j].userId
                   /\ last.created[i].title = last.created[j].title) => i = j
           /\ Len(notifications) >= Len(last.created)
           /\ SubSeq(notifications, Len(notifications) - Len(last.created) + 1,
                     Len(notifications)) = last.created

\* ownership moved through the single owner field alone, and the new owner
\* was notified
C10_Witness ==
    /\ Succeeded("updateOkr")
    /\ last.input.owners = None
    /\ last.input.owner # None
    /\ EffectiveOwners(last.before[1]) # EffectiveOwners(okrs[last.okrId])
    /\ OwnerNotified(TitleOwnerAdded) # {}

\* C18: extractMentions of "Great work @Ada Lovelace and @bob" is
\* ["Ada Lovelace", "bob"]; in general the result holds every mention once,
\* none empty and none ending in . , ! or ?.
C18_MentionsOfGreatWork ==
    /\ concatenate(mentionMessage) = MessageGreatWork => mentionResult = <<LabelAdaFull, <<"b","o","b">>>>
    /\ \A i, j \in 1..Len(mentionResult) : mentionResult[i] = mentionResult[j] => i = j
    /\ \A i \in 1..Len(mentionResult) :
           /\ mentionResult[i] # <<>>
           /\ mentionResult[i][Len(mentionResult[i])] \notin {".", ",", "!", "?"}

\* the label, trimmed, equals one of the user's five identifiers without
\* regard to case
LabelNames(user, label) ==
    LET given == toLowerCase(trim(label))
    IN  given \in {toLowerCase(user.email),
                   toLowerCase(emailPrefixOf(user.email)),
                   toLowerCase(user.firstName),
                   toLowerCase(user.lastName),
                   toLowerCase(JoinWithSpace(user.firstName, user.lastName))}

\* C17: the Directory Resolver returns, each at most once, exactly the
\* existing users one of whose identifiers (email, email local-part, first
\* name, last name, full name) equals one of the trimmed labels without
\* regard to case, whether or not a name contains spaces.
C17_ResolvesExactlyTheNamed ==
    /\ \A i, j \in 1..Len(resolverResult) : resolverResult[i] = resolverResult[j] => i = j
    /\ Range(resolverResult) =
           {u \in users : \E i \in 1..Len(resolverLabels) :
                              LabelNames(Directory[u], resolverLabels[i])}

\* the users the Directory Resolver returns for the labels
DirectoryResolves(labels) == Range(resolveUsersByLabels(labels))

\* the comment or reply the latest createComment / addReply stored
Posted == IF last.op = "createComment" THEN last.after[1] ELSE last.after[1].replies[1]

\* the notifications of the latest call that went to the user
Received(u) == {i \in 1..Len(last.created) : last.created[i].userId = u}

\* C11: after a successful createComment or addReply the author received no
\* notification for it; every other user received exactly one mention
\* notification if the Directory Resolver resolves them from the mention
\* list extracted from the message, otherwise exactly one comment
\* notification if it resolves them from the objective's current owner
\* labels, otherwise none; these are the notifications the call inserted.
C11_OneNotificationPerUser ==
    (Succeeded("createComment") \/ Succeeded("addReply"))
    => LET mentioned == DirectoryResolves(Posted.mentions)
           owning == DirectoryResolves(EffectiveOwners(okrs[last.okrId]))
       IN  /\ \A u \in DirectoryIds :
                  IF u = Posted.authorId THEN Received(u) = {}
                  ELSE IF u \in mentioned
                  THEN /\ Cardinality(Received(u)) = 1
                       /\ \A i \in Received(u) : last.created[i].type = "mention"
                  ELSE IF u \in owning
                  THEN /\ Cardinality(Received(u)) = 1
                       /\ \A i \in Received(u) : last.created[i].type = "comment"
                  ELSE Received(u) = {}
           /\ \A i \in 1..Len(last.created) :
                  /\ last.created[i].contextLabel = "OKR"
                  /\ last.created[i].contextId = last.okrId
           /\ Len(notifications) >= Len(last.created)
           /\ SubSeq(notifications, Len(notifications) - Len(last.created) + 1,
                     Len(notifications)) = last.created

\* an owner wrote a comment that mentions another owner: the author heard
\* nothing and the mentioned owner received the mention alone
C11_Witness ==
    /\ Succeeded("createComment")
    /\ Posted.authorId \in DirectoryResolves(EffectiveOwners(okrs[last.okrId]))
    /\ \E u \in DirectoryResolves(Posted.mentions) :
           /\ u \in DirectoryResolves(EffectiveOwners(okrs[last.okrId]))
           /\ u # Posted.authorId
           /\ Received(u) # {}

\* the step is a call of the operation
Calls(op) == calls' = calls + 1 /\ last'.op = op

\* every comment but the one named is stored as it was
OtherCommentsKept(commentId) ==
    \A c \in DOMAIN comments \ {commentId} : c \in DOMAIN comments' /\ comments'[c] = comments[c]

HasReply(comment, replyId) == \E i \in 1..Len(comment.replies) : comment.replies[i].id = replyId

\* C13: a call of deleteComment touches neither the notifications nor the
\* objectives.  It throws NotFound (404) exactly when the comment does not
\* exist or a replyId is given that names none of its replies, and then no
\* comment changes.  Without a replyId (an absent or empty one) it removes
\* the comment with all of its replies, keeps every other comment and
\* returns null; with a replyId it removes that reply alone, keeps the other
\* replies in their order, the rest of the parent and every other comment,
\* and returns the updated parent.
C13_DeleteRemovesExactly ==
    [][Calls("deleteComment")
       => LET commentId == last'.input.commentId
              replyId == last'.input.replyId
              missing == \/ commentId \notin DOMAIN comments
                         \/ replyId # 0 /\ ~HasReply(comments[commentId], replyId)
              isOther(reply) == reply.id # replyId
          IN  /\ notifications' = notifications
              /\ okrs' = okrs
              /\ last'.outcome = (IF missing THEN "404" ELSE "ok")
              /\ missing => comments' = comments
              /\ ~missing
                 => /\ OtherCommentsKept(commentId)
                    /\ IF replyId = 0
                       THEN /\ DOMAIN comments' = DOMAIN comments \ {commentId}
                            /\ last'.after = None
                       ELSE /\ DOMAIN comments' = DOMAIN comments
                            /\ comments'[commentId] =
                                   [comments[commentId] EXCEPT
                                       !.replies = SelectSeq(comments[commentId].replies, isOther)]
                            /\ last'.after = Some(comments'[commentId])]_vars

\* the middle one of three replies was deleted while a second comment
\* existed
C13_Witness ==
    /\ Succeeded("deleteComment")
    /\ last.input.replyId # 0
    /\ Len(last.before[1].replies) = 3
    /\ last.before[1].replies[2].id = last.input.replyId
    /\ Cardinality(DOMAIN comments) = 2

\* the operations that reach each fan-out path
FanOutPaths ==
    [owner |-> {"createOkr", "updateOkr", "updateOkrOwners"},
     progress |-> {"updateOkr", "updateKeyResultStatus"},
     comment |-> {"createComment", "addReply"},
     mention |-> {"createComment", "addReply"}]

\* C20: in every step every stored notification stays where it is with its
\* recipient, type, title, message, context label and context id; its read
\* flag changes, from unread to read, only in a call of markNotificationsRead
\* or markNotificationRead by its recipient; and the notifications a step
\* adds are unread documents of one of the four fan-out paths (owner,
\* progress, comment, mention), inserted by an operation that reaches that
\* path.
C20_NotificationsOnlyRead ==
    [][/\ Len(notifications') >= Len(notifications)
       /\ \A i \in 1..Len(notifications) :
              /\ notifications'[i] = [notifications[i] EXCEPT !.isRead = notifications'[i].isRead]
              /\ notifications'[i].isRead # notifications[i].isRead
                 => /\ notifications'[i].isRead
                    /\ last'.op \in {"markNotificationsRead", "markNotificationRead"}
                    /\ last'.actor = notifications[i].userId
       /\ \A i \in (Len(notifications) + 1)..Len(notifications') :
              /\ notifications'[i].type \in DOMAIN FanOutPaths
              /\ last'.op \in FanOutPaths[notifications'[i].type]
              /\ ~notifications'[i].isRead
              /\ notifications'[i] = last'.created[i - Len(notifications)]]_vars

\* a user marked their notifications read after comment and mention
\* notifications had been added to the owner notifications
C20_Witness ==
    /\ Succeeded("markNotificationsRead")
    /\ \E i, j, k \in 1..Len(notifications) :
           /\ notifications[i].isRead
           /\ notifications[i].userId = last.actor
           /\ notifications[j].type = "mention"
           /\ notifications[k].type = "owner"
           /\ ~notifications[k].isRead

\* the operations that await a fan-out after their write
FanOutOperations ==
    {"createOkr", "updateOkr", "updateKeyResultStatus", "updateOkrOwners",
     "createComment", "addReply"}

\* C14: a call of createOkr, updateOkr, updateKeyResultStatus,
\* updateOkrOwners, createComment or addReply that has written its objective
\* or comment completes successfully for its caller, whether or not the
\* recipient resolution or the notification insert of its fan-out rejects,
\* and what it wrote is what is stored.
C14_FanOutFailureIsSilent ==
    (last.op \in FanOutOperations /\ last.after # None /\ last.after # last.before)
    => /\ last.outcome = "ok"
       /\ IF last.op \in {"createComment", "addReply"}
          THEN comments[last.input.commentId] = last.after[1]
          ELSE okrs[last.okrId] = last.after[1]

\* both requests have completed, were calls of the operation, and had both
\* loaded the objective before either saved
BothInterleaved(op) ==
    /\ DOMAIN inflight = RaceSlots
    /\ \A slot \in RaceSlots :
           /\ inflight[slot].stage = "done"
           /\ inflight[slot].request.op = op
           /\ inflight[slot].seen = 0

\* the paths an updateOkr input patches
PatchedPaths(input) ==
    {path \in OkrPaths :
        \/ path = "objective" /\ IsSome(input.objective)
        \/ path = "owners" /\ IsSome(input.owners)
        \/ path = "owner" /\ (IsSome(input.owners) \/ IsSome(input.owner))
        \/ path = "dueDate" /\ IsSome(input.dueDate)
        \/ path = "category" /\ IsSome(input.category)
        \/ path = "vertical" /\ IsSome(input.vertical)
        \/ path = "status" /\ input.status # Undefined
        \/ path = "keyResults" /\ IsSome(input.keyResults)
        \/ path = "progress" /\ (IsSome(input.keyResults) \/ IsSome(input.progress))}

\* C15: when two updateOkr calls on the same objective have both loaded it
\* before either saved, both complete without error, a field patched by one
\* of them alone holds that call's value and a field patched by both holds
\* the value of the call that saved last.
C15_LastWriteWinsPerField ==
    BothInterleaved("updateOkr")
    => /\ \A slot \in RaceSlots : inflight[slot].outcome = "ok"
       /\ \A slot \in RaceSlots :
              LET other == CHOOSE s \in RaceSlots : s # slot
                  later == IF inflight[other].order > inflight[slot].order THEN other ELSE slot
              IN  \A path \in PatchedPaths(inflight[slot].request.input) :
                      okrs[1][path] =
                          IF path \in PatchedPaths(inflight[other].request.input)
                          THEN inflight[later].written[path]
                          ELSE inflight[slot].written[path]

\* C16: when two updateKeyResultStatus calls on different key results of
\* the same objective have interleaved and both completed, the stored
\* progress and status are the Progress Engine's outputs on the stored
\* key-result list.
C16_DerivedAfterInterleaving ==
    (/\ BothInterleaved("updateKeyResultStatus")
     /\ inflight["a"].request.keyResultId # inflight["b"].request.keyResultId)
    => /\ okrs[1].progress = calculateProgress(asKeyResultInputs(okrs[1].keyResults))
       /\ okrs[1].status = deriveOkrStatus(asKeyResultInputs(okrs[1].keyResults))

\* the year and the month (1..12) written in a due date, 0 when the text
\* is no calendar date
DueYear(okr) ==
    IF IsSome(okr.dueDate) /\ IsDateOnly(okr.dueDate[1])
    THEN numberOf(SubSeq(okr.dueDate[1], 1, 4)) ELSE 0

DueMonth(okr) ==
    IF IsSome(okr.dueDate) /\ IsDateOnly(okr.dueDate[1])
    THEN numberOf(SubSeq(okr.dueDate[1], 6, 7)) ELSE 0

\* the objectives the request's filters select: due in the report year,
\* with the status and the team asked for
Filtered(filters) ==
    LET year == IF IsSome(filters.year) THEN filters.year[1] ELSE CurrentYear
        status == normalizeStatusFilter(filters.status)
        team == IF IsSome(filters.team) THEN trim(filters.team[1]) ELSE <<>>
    IN  {id \in DOMAIN okrs :
            /\ DueYear(okrs[id]) = year
            /\ matchesQuery(okrs[id], year, status, team)
            /\ status = "completed" => okrs[id].progress >= 100}

RECURSIVE SumProgress(_)
SumProgress(ids) ==
    IF ids = {} THEN 0
    ELSE LET id == CHOOSE i \in ids : TRUE
         IN  okrs[id].progress + SumProgress(ids \ {id})

\* the filtered objectives whose due-date month falls in the quarter (1..4)
Bucket(filters, q) == {id \in Filtered(filters) : (DueMonth(okrs[id]) - 1) \div 3 = q - 1}

MeanProgress(ids) == IF ids = {} THEN 0 ELSE RoundDiv(SumProgress(ids), Cardinality(ids))

\* C19: getQuarterlyReport returns the four buckets Q1..Q4 in order; each
\* bucket's okrs and progress are the count and the rounded mean progress of
\* the filtered objectives whose due-date month falls in the quarter, with
\* progress 0 and focus "Cross-team alignment" for an empty bucket; Q1's
\* trend is the baseline label and each later quarter's trend is the signed
\* difference to the quarter before, "No change vs last quarter" when the
\* two are equal.
C19_QuarterlyBuckets ==
    reportFilters # <<>>
    => LET filters == reportFilters[1]
           mean(q) == MeanProgress(Bucket(filters, q))
       IN  /\ Len(reportResult) = 4
           /\ \A q \in 1..4 :
                  /\ reportResult[q].quarter = QuarterLabels[q]
                  /\ reportResult[q].okrs = Cardinality(Bucket(filters, q))
                  /\ reportResult[q].progress = mean(q)
                  /\ Bucket(filters, q) = {} => reportResult[q].focus = FocusDefault
                  /\ reportResult[q].trend =
                         IF q = 1 THEN TrendBaseline
                         ELSE IF mean(q) = mean(q - 1) THEN TrendNoChange
                         ELSE IF mean(q) > mean(q - 1) THEN TrendUp(mean(q) - mean(q - 1))
                         ELSE TrendDown(mean(q) - mean(q - 1))

\* C21: a successful cloneOkr does not copy creator-ship: the clone's
\* createdBy is the value the caller supplied, and when the caller supplied
\* none the clone's createdBy is not the creator of the source objective.
C21_CloneDoesNotCopyCreator ==
    Succeeded("cloneOkr")
    => LET source == last.before[1]
           cloned == last.after[1]
       IN  IF last.input.createdBy # Undefined
           THEN cloned.createdBy = last.input.createdBy
           ELSE source.createdBy # Undefined => cloned.createdBy # source.createdBy

\* the status the key result named by the latest updateKeyResultStatus had
\* before the call
StatusBefore ==
    LET before == last.before[1].keyResults
        index == CHOOSE i \in 1..Len(before) :
                     /\ before[i].id = last.input.keyResultId
                     /\ \A j \in 1..(i - 1) : before[j].id # last.input.keyResultId
    IN  before[index].status

\* the recipients of the progress notifications the latest call created
ProgressNotified ==
    {last.created[i].userId : i \in {j \in 1..Len(last.created) : last.created[j].type = "progress"}}

\* no user received two progress notifications from the latest call
OneProgressEach ==
    \A i, j \in 1..Len(last.created) :
        (/\ last.created[i].type = "progress"
         /\ last.created[j].type = "progress"
         /\ last.created[i].userId = last.created[j].userId) => i = j

\* C22 as stated: a successful updateKeyResultStatus creates progress
\* notifications if and only if the requested status differs from the status
\* the key result had before the call.
C22_NotifiesIffStatusChanged ==
    Succeeded("updateKeyResultStatus")
    => (ProgressNotified # {} <=> StatusBefore # last.input.status)

\* the step repeats the successful updateKeyResultStatus that came just before
\* it: same objective, same key result, same status, again successful
RepeatsKeyResultStatus ==
    /\ Succeeded("updateKeyResultStatus")
    /\ Calls("updateKeyResultStatus")
    /\ last'.outcome = "ok"
    /\ last'.okrId = last.okrId
    /\ last'.input = last.input

\* C22: a successful updateKeyResultStatus creates no progress notification
\* when the requested status equals the status the key result had before the
\* call, and otherwise exactly one for each user the Directory Resolver
\* resolves from the objective's owner labels (none when it resolves nobody);
\* it creates no other notification.  Repeating the call with the same status
\* creates no notification and leaves the stored objective exactly as the
\* first call left it.
C22_ProgressFollowsStatusChange ==
    [][/\ (Calls("updateKeyResultStatus") /\ last'.outcome = "ok")
          => /\ \A i \in 1..Len(last'.created) : last'.created[i].type = "progress"
             /\ OneProgressEach'
             /\ ProgressNotified' =
                    IF StatusBefore' # last'.input.status
                    THEN ResolvedFrom(Range(EffectiveOwners(okrs'[last'.okrId])))
                    ELSE {}
             /\ notifications' = notifications \o last'.created
       /\ RepeatsKeyResultStatus
          => /\ last'.created = <<>>
             /\ notifications' = notifications
             /\ okrs' = okrs]_vars

\* a status change notified two owners, and a repeat of it has just been
\* answered without a notification
C22_Witness ==
    /\ Succeeded("updateKeyResultStatus")
    /\ StatusBefore = last.input.status
    /\ last.created = <<>>
    /\ Len(notifications) >= 2
    /\ notifications[Len(notifications)].type = "progress"
    /\ notifications[Len(notifications) - 1].type = "progress"
    /\ notifications[Len(notifications)].contextId = last.input.keyResultId

\* C23: a successful updateOkr creates progress notifications, exactly one
\* for each user the Directory Resolver resolves from the owner list after
\* the write, if the stored progress or the stored status after the write
\* differs from its value before the write, and creates no progress
\* notification if neither differs.
C23_ProgressFanOutOnChange ==
    Succeeded("updateOkr")
    => LET before == last.before[1]
           after == okrs[last.okrId]
           changed == after.progress # before.progress \/ after.status # before.status
       IN  /\ after = last.after[1]
           /\ OneProgressEach
           /\ ProgressNotified =
                  IF changed THEN ResolvedFrom(Range(EffectiveOwners(after))) ELSE {}
           /\ \A i \in 1..Len(last.created) :
                  last.created[i].type = "progress"
                  => /\ last.created[i].contextLabel = "OKR"
                     /\ last.created[i].contextId = last.okrId

\* an update moved the owners and the status at once, and the progress
\* notification went to the new owner
C23_Witness ==
    /\ Succeeded("updateOkr")
    /\ okrs[last.okrId].status # last.before[1].status
    /\ EffectiveOwners(okrs[last.okrId]) # EffectiveOwners(last.before[1])
    /\ ProgressNotified # {}
    /\ ProgressNotified \cap ResolvedFrom(Range(EffectiveOwners(last.before[1]))) = {}

\* C24: a call of addReply that returns an error (blank message, comment not
\* found, or the objective of the comment deleted) leaves every comment's
\* reply list as it was and creates no notification.
C24_FailedReplyWritesNothing ==
    [][(Calls("addReply") /\ last'.outcome # "ok")
       => /\ comments' = comments
          /\ notifications' = notifications]_vars

\* C25: for every stored objective and every directory user, if the
\* Directory Resolver resolves the user from the objective's owner labels
\* then the Access Gate's ownerMatch holds for that user on that objective.
C25_NotifiedOwnersHaveAccess ==
    \A id \in DOMAIN okrs :
        \A u \in DirectoryResolves(EffectiveOwners(okrs[id])) :
            resolveOwnerAccess(okrs[id], u).ownerMatch

\* C26: every stored objective with a non-empty owners list has its single
\* owner field equal to the first element of the list.
C26_OwnerIsFirstOfOwners ==
    \A id \in DOMAIN okrs :
        okrs[id].owners # <<>> => okrs[id].owner = Some(okrs[id].owners[1])

PatchOps == {"updateOkr", "updateOkrOwners", "updateKeyResultStatus"}

\* C27: no call of updateOkr, updateOkrOwners or updateKeyResultStatus
\* changes the createdBy of any objective, whatever its input holds; and a
\* gated call on an existing objective by its creator, while the creator has
\* a user record, is never answered Unauthorized or Forbidden, whatever the
\* objective's owners are by then.
C27_CreatorKeepsAccess ==
    [][/\ (calls' = calls + 1 /\ last'.op \in PatchOps)
          => /\ DOMAIN okrs' = DOMAIN okrs
             /\ \A id \in DOMAIN okrs : okrs'[id].createdBy = okrs[id].createdBy
       /\ (/\ calls' = calls + 1
           /\ last'.op \in GatedOps
           /\ last'.before # None
           /\ last'.actor \in users
           /\ CreatorMatch(last'.before[1], last'.actor))
          => last'.outcome \notin {"401", "403"}]_vars

\* the creator, no longer among the owners, updated the objective with a
\* patch naming another creator, and is still its creator
C27_Witness ==
    /\ Succeeded("updateOkr")
    /\ last.input.createdBy # Undefined
    /\ last.input.createdBy # last.actor
    /\ CreatorMatch(last.before[1], last.actor)
    /\ ~OwnerMatch(last.before[1], last.actor)
    /\ okrs[last.okrId].createdBy = last.actor

\* the notifications whose read flag the step turned from unread to read
NewlyRead ==
    {i \in 1..Len(notifications) :
        i <= Len(notifications') /\ ~notifications[i].isRead /\ notifications'[i].isRead}

\* the notifications of the user that the request of the latest call selects
SelectedOf(userId) ==
    {i \in 1..Len(notifications) :
        /\ notifications[i].userId = userId
        /\ last'.input.markAll \/ i \in last'.input.ids}

\* C28: no step turns a read notification back to unread or removes it; a
\* call of markNotificationsRead or markNotificationRead by a user turns to
\* read exactly the notifications of that user that the request selects (all
\* of them under markAll, otherwise those among the ids supplied) and none of
\* another user's, even when the ids supplied name them; no other operation
\* changes a read flag.
C28_ReadFlagMonotonicPerRecipient ==
    [][/\ Len(notifications') >= Len(notifications)
       /\ \A i \in 1..Len(notifications) : notifications[i].isRead => notifications'[i].isRead
       /\ IF (Calls("markNotificationsRead") \/ Calls("markNotificationRead"))
             /\ last'.outcome = "ok"
          THEN /\ \A i \in NewlyRead : notifications[i].userId = last'.actor
               /\ \A i \in SelectedOf(last'.actor) : notifications'[i].isRead
               /\ NewlyRead \subseteq SelectedOf(last'.actor)
          ELSE NewlyRead = {}]_vars

\* a user asked to mark two notifications read, one of them another user's:
\* their own is read, the other one is still unread
C28_Witness ==
    /\ Succeeded("markNotificationsRead")
    /\ ~last.input.markAll
    /\ \E i, j \in last.input.ids :
           /\ i <= Len(notifications) /\ j <= Len(notifications)
           /\ notifications[i].userId = last.actor
           /\ notifications[i].isRead
           /\ notifications[j].userId # last.actor
           /\ ~notifications[j].isRead

\* the refresh tokens issued to the user that refreshSession accepts now
AcceptedOf(userId) ==
    {t \in issuedTokens : t.userId = userId /\ refreshOutcome(t) = "ok"}

IssuingOps == {"loginUser", "loginWithGoogle", "refreshSession"}

\* the step is a successful call that ends the user's earlier sessions: a
\* login, a refresh, a password reset, or a logout with the current token
EndsSessions ==
    /\ calls' = calls + 1
    /\ last'.outcome = "ok"
    /\ \/ last'.op \in IssuingOps
       \/ last'.op = "resetPassword"
       \/ last'.op = "logoutSession" /\ refreshOutcome(last'.input) = "ok"

\* C29: refreshSession accepts at most one of the refresh tokens issued to a
\* user; after a successful login, refreshSession, resetPassword, or
\* logoutSession with the current token, it rejects with 401 every refresh
\* token issued to that user before the call; and a logoutSession with a
\* token that is not the current one changes no user document, so the
\* current token stays accepted.
C29_OneRefreshTokenPerUser ==
    [][/\ \A u \in UserIds : Cardinality(AcceptedOf(u)') <= 1
       /\ EndsSessions
          => \A t \in issuedTokens : t.userId = last'.actor => refreshOutcome(t)' = "401"
       /\ (Calls("logoutSession") /\ refreshOutcome(last'.input) # "ok")
          => /\ accounts' = accounts
             /\ \A u \in UserIds : AcceptedOf(u)' = AcceptedOf(u)]_vars

\* a user logged out with a stale refresh token and the token of their
\* current session is still accepted
C29_Witness ==
    /\ Succeeded("logoutSession")
    /\ last.input \in issuedTokens
    /\ refreshOutcome(last.input) = "401"
    /\ \E t \in AcceptedOf(last.actor) : t # last.input

\* the outcome of the i-th fetch was one shouldRetry asks to retry
Retryable(i) == shouldRetry(retryOptions[1], fetched[i].response, fetched[i].error)

\* the error the loop keeps for the i-th fetch
ErrorOf(i) ==
    IF fetched[i].response # None THEN StatusError(fetched[i].response[1])
    ELSE fetched[i].error[1]

\* what fetchWithRetry has done so far agrees with its contract
RetryContract ==
    LET n == Len(fetched)
        limit == retriesOf(retryOptions[1]) + 1
    IN  /\ n <= limit
        /\ \A i \in 1..(n - 1) : Retryable(i)
        /\ (n > 0 /\ ~Retryable(n))
           => settled = Some(IF fetched[n].response # None
                             THEN Returned(fetched[n].response[1])
                             ELSE Thrown(fetched[n].error[1]))
        /\ (n > 0 /\ Retryable(n))
           => IF n = limit THEN settled = Some(Thrown(ErrorOf(n))) ELSE settled = None
        /\ n = 0 => settled = None

\* C30: fetchWithRetry settles, after at most retries + 1 fetches; it
\* returns the first response shouldRetry does not ask to retry and rethrows
\* the first error shouldRetry does not ask to retry, in both cases without
\* a further fetch; and when all retries + 1 fetches were retryable it throws
\* the error of the last one (the rejection itself, or the status error made
\* for a retryable response) and returns nothing.
C30_RetryTerminates ==
    /\ [](retryOptions # None => RetryContract)
    /\ (retryOptions # None) ~> (settled # None)

\* three fetches were all retryable, the last one a 429 response after a
\* network failure, and the call threw the status error of the last
C30_Witness ==
    /\ retryOptions # None
    /\ Len(fetched) = 3
    /\ fetched[2] = Rejected(NetworkError)
    /\ fetched[3] = Responded(429)
    /\ settled = Some(Thrown(StatusError(429)))

====
